---- MODULE Spec2Model ----
(***************************************************************************)
(* A model of the storage migrator of supabase-backup (src/storage.py):    *)
(* the retry loop of every HTTP call, the paginated recursive listing,     *)
(* and the backup / wipe / restore batches with their semaphore.           *)
(*                                                                         *)
(* Strings (object keys, local paths, file names) are sequences of tokens. *)
(* A token is a one-character string, or one of the multi-character        *)
(* tokens the code treats as a unit: the sidecar suffix.                   *)
(***************************************************************************)
EXTENDS Integers, Sequences, FiniteSets, TLC

(***************************************************************************)
(* Bounds of the model.                                                    *)
(***************************************************************************)
\* the largest retry budget a caller of _request_with_retry passes
MaxRetries == 4

\* storage.py:54  retries: int = 3
DefaultRetries == 3

\* the number of HTTP calls of one behaviour that meet a failing attempt
MaxFaultyCalls == 1

\* the number of completely filled list pages of a directory
MaxFullPages == 1

(***************************************************************************)
(* HTTP outcomes of one attempt: a response with a status, or a network    *)
(* level exception raised by session.request.                              *)
(***************************************************************************)
Statuses == {200, 201, 400, 404, 409, 429, 500, 503}

NetworkErrors == {"ClientError", "TimeoutError"}

Resp(s) == [status |-> s, exc |-> "none"]

Raised(e) == [status |-> 0, exc |-> e]

Outcomes == {Resp(s) : s \in Statuses} \cup {Raised(e) : e \in NetworkErrors}

IsResp(o) == o.exc = "none"

\* storage.py:61  resp.status >= 500 or resp.status == 429
RetryableStatusNo429(o) == IsResp(o) /\ o.status >= 500

RetryableStatus(o) == IsResp(o) /\ (o.status >= 500 \/ o.status = 429)

\* the variant that allows one attempt more
HasAttemptLeftOneMore(attempt, retries) == attempt < retries

\* storage.py:62, 68  attempt < retries - 1   (attempt is the 0-based index)
HasAttemptLeft(attempt, retries) == attempt < retries - 1

\* the variant that waits one time unit after every attempt
BackoffDelayConstant(attempt) == 1

\* storage.py:63, 69  asyncio.sleep(1 * (attempt + 1))
BackoffDelay(attempt) == 1 * (attempt + 1)

\* What one pass of the loop body of _request_with_retry does with the
\* outcome of session.request: "sleep" (sleep, then continue), "return"
\* (return resp) or "raise" (raise last_exception).
AfterAttemptNoExcRetry(attempt, retries, o) ==
    IF IsResp(o)
      THEN IF RetryableStatus(o) /\ HasAttemptLeft(attempt, retries)
             THEN "sleep" ELSE "return"
      ELSE "raise"

AfterAttempt(attempt, retries, o) ==
    IF IsResp(o)
      THEN IF RetryableStatus(o) /\ HasAttemptLeft(attempt, retries)
             THEN "sleep" ELSE "return"
      ELSE IF HasAttemptLeft(attempt, retries) THEN "sleep" ELSE "raise"

(***************************************************************************)
(* Strings.  "/" separates the segments of an object key and of a local    *)
(* path; Suffix is the sidecar suffix ".__metadata.json".                   *)
(***************************************************************************)
Slash == "/"

Suffix == ".__metadata.json"

\* the characters of the model, in the collation order of the list endpoint
Alphabet == <<" ", "0", "1", "2", "3", "4", "5", "6", "7", "8", "9",
              "a", "b", "d", "e", "f", "g", Suffix>>

Rank == [t \in {Alphabet[i] : i \in 1..Len(Alphabet)} |->
           CHOOSE i \in 1..Len(Alphabet) : Alphabet[i] = t]

\* the longest segment name of the model
MaxNameLen == 4

StartsWith(s, p) == Len(p) <= Len(s) /\ SubSeq(s, 1, Len(p)) = p

Drop(s, n) == SubSeq(s, n + 1, Len(s))

\* the index of the first (last) "/" of s, 0 when it has none
FirstSlash(s) ==
    IF \E i \in 1..Len(s) : s[i] = Slash
      THEN CHOOSE i \in 1..Len(s) : s[i] = Slash /\ \A j \in 1..(i - 1) : s[j] # Slash
      ELSE 0

LastSlash(s) ==
    IF \E i \in 1..Len(s) : s[i] = Slash
      THEN CHOOSE i \in 1..Len(s) : s[i] = Slash /\ \A j \in (i + 1)..Len(s) : s[j] # Slash
      ELSE 0

\* storage.py:131, 136  f"{path}/{item['name']}" if path else item['name']
JoinPathAlwaysSlash(path, name) == path \o <<Slash>> \o name

JoinPath(path, name) == IF path # <<>> THEN path \o <<Slash>> \o name ELSE name

(***************************************************************************)
(* The remote store of one project: a function from the names of its       *)
(* buckets to the objects of each, an object map being a function from     *)
(* object keys to [content, metadata].                                      *)
(***************************************************************************)
NullMeta == [present |-> FALSE, mimetype |-> "null", cacheControl |-> <<>>]

\* the number by which the list endpoint orders a name (lexicographic)
RECURSIVE NameKey(_, _)
NameKey(name, width) ==
    IF width = 0 THEN 0
    ELSE (IF name = <<>> THEN 0 ELSE Rank[Head(name)]) * ((Len(Alphabet) + 1) ^ (width - 1))
         + NameKey(IF name = <<>> THEN <<>> ELSE Tail(name), width - 1)

\* POST /storage/v1/object/list/{bucket} with {prefix}: the entries right
\* under the prefix.  An object whose key continues with one more segment
\* is a file entry (it has an id); a longer key shows as a directory entry
\* (no id) named by its next segment.
RestUnder(prefix, key) ==
    IF prefix = <<>> THEN key
    ELSE IF StartsWith(key, prefix \o <<Slash>>) THEN Drop(key, Len(prefix) + 1)
    ELSE <<>>

EntryOf(objs, prefix, key) ==
    LET rest == RestUnder(prefix, key)
        i == FirstSlash(rest)
    IN IF i = 0
         THEN [name |-> rest, id |-> "id", metadata |-> objs[key].metadata]
         ELSE [name |-> SubSeq(rest, 1, i - 1), id |-> "null", metadata |-> NullMeta]

EntriesUnder(objs, prefix) ==
    {EntryOf(objs, prefix, k) : k \in {k \in DOMAIN objs : RestUnder(prefix, k) # <<>>}}

\* sortBy {column: "name", order: "asc"}: the number by which an entry is
\* ordered; a directory and a file of the same name are listed directory first
EntryKey(e) == 2 * NameKey(e.name, MaxNameLen) + (IF e.id = "null" THEN 0 ELSE 1)

MaxEntryKey == 2 * ((Len(Alphabet) + 1) ^ MaxNameLen)

\* the entries of the set ks of <<key, entry>> pairs whose keys lie in lo..hi,
\* in ascending order of key
RECURSIVE SortByKey(_, _, _)
SortByKey(ks, lo, hi) ==
    IF ks = {} THEN <<>>
    ELSE IF lo = hi THEN <<(CHOOSE k \in ks : TRUE)[2]>>
    ELSE LET mid == (lo + hi) \div 2
         IN SortByKey({k \in ks : k[1] <= mid}, lo, mid)
              \o SortByKey({k \in ks : k[1] > mid}, mid + 1, hi)

SortedEntries(objs, prefix) ==
    SortByKey({<<EntryKey(e), e>> : e \in EntriesUnder(objs, prefix)}, 0, MaxEntryKey)

\* {limit, offset}: the page of at most `lim` entries after the first `off`
ListPage(objs, prefix, lim, off) ==
    LET all == SortedEntries(objs, prefix)
        last == IF off + lim < Len(all) THEN off + lim ELSE Len(all)
    IN SubSeq(all, off + 1, last)

(***************************************************************************)
(* URL paths.  quote() percent-encodes every character outside its safe    *)
(* set, which holds "/"; the server decodes the path it receives.          *)
(***************************************************************************)
\* storage.py:158, 234, 257  quote(path)
QuoteChar(c) == IF c = " " THEN "%20" ELSE c

Quote(s) == [i \in 1..Len(s) |-> QuoteChar(s[i])]

UnquoteChar(c) == IF c = "%20" THEN " " ELSE c

Unquote(s) == [i \in 1..Len(s) |-> UnquoteChar(s[i])]

(***************************************************************************)
(* The local file system below the storage directory of the backup:        *)
(* fs.dirs is the set of directories (<<>> is the storage directory        *)
(* itself), fs.files maps the path of each regular file to its content.    *)
(* A content is raw bytes (an object's data) or a JSON document (a listing *)
(* item, written as a sidecar).                                            *)
(***************************************************************************)
NoItem == [name |-> <<>>, id |-> "null", metadata |-> NullMeta, full_path |-> <<>>]

Bytes(d) == [kind |-> "bytes", data |-> d, item |-> NoItem]

\* storage.py:155-156  json.dump(file_item, f, indent=2)
Json(item) == [kind |-> "json", data |-> 0, item |-> item]

NoFs == [dirs |-> {}, files |-> <<>>]

IsFile(f, p) == p \in DOMAIN f.files

\* os.path.exists
Exists(f, p) == p \in f.dirs \/ IsFile(f, p)

\* the directories above p, the storage directory excluded
Ancestors(p) == {SubSeq(p, 1, i - 1) : i \in {j \in 1..Len(p) : p[j] = Slash}}

\* storage.py:153  os.path.dirname(local_path)
Dirname(p) == IF LastSlash(p) = 0 THEN <<>> ELSE SubSeq(p, 1, LastSlash(p) - 1)

Basename(p) == Drop(p, LastSlash(p))

\* storage.py:146, 153  os.makedirs(p, exist_ok=True): fails when p or a
\* directory above it is a regular file
MakedirsFails(f, p) == \E q \in Ancestors(p) \cup {p} : IsFile(f, q)

Makedirs(f, p) == [f EXCEPT !.dirs = @ \cup Ancestors(p) \cup {p, <<>>}]

\* storage.py:155, 166  open(p, 'w'): fails when p is a directory
OpenFails(f, p) == p \in f.dirs \/ Dirname(p) \notin f.dirs

WriteFile(f, p, c) ==
    [f EXCEPT !.files = [q \in DOMAIN @ \cup {p} |-> IF q = p THEN c ELSE @[q]]]

\* storage.py:197, 288  os.walk(bucket_source): the regular files below root
Walk(f, root) == {p \in DOMAIN f.files : StartsWith(p, root \o <<Slash>>)}

\* storage.py:202, 293  os.path.relpath(local_path, bucket_source)
Relpath(p, root) == Drop(p, Len(root) + 1)

\* the variant in which no file name counts as a sidecar's
EndsWithSuffixNever(p) == FALSE

\* storage.py:199, 290  filename.endswith('.__metadata.json')
EndsWithSuffix(p) == LET n == Basename(p) IN n # <<>> /\ n[Len(n)] = Suffix

\* storage.py:155, 204  f"{local_path}.__metadata.json"
SidecarOf(p) == Append(p, Suffix)

\* storage.py:152, 191  the local directory of a bucket, the local path of a key
BucketDir(b) == <<b>>

LocalPath(b, key) == <<b, Slash>> \o key

\* the content files of a bucket's snapshot, as paths relative to its directory
LocalFiles(f, b) ==
    {Relpath(p, BucketDir(b)) : p \in {q \in Walk(f, BucketDir(b)) : ~EndsWithSuffix(q)}}

\* storage.py:358  the directories right below the storage directory
LocalBuckets(f) == {d[1] : d \in {q \in f.dirs : Len(q) = 1}}

RECURSIVE SeqOf(_)
SeqOf(S) ==
    IF S = {} THEN <<>>
    ELSE LET x == CHOOSE x \in S : TRUE IN <<x>> \o SeqOf(S \ {x})

(***************************************************************************)
(* State.                                                                  *)
(*   rq      one call of _request_with_retry, observed on its own:         *)
(*             retries  the budget passed by the caller                    *)
(*             attempt  the loop variable (0-based index of the attempt)   *)
(*             st       "inflight" (session.request is awaited),           *)
(*                      "sleeping" (asyncio.sleep is awaited),             *)
(*                      "returned" / "raised" (the call is over)           *)
(*             hist     the outcomes of the attempts made so far           *)
(*             delays   the delays slept so far                            *)
(*             result   what the call surfaced to its caller               *)
(*   remote  the remote stores: remote[project][bucket][key] is an object  *)
(*   fs      the local file system below the storage directory             *)
(*   run     the top-level coroutine (backup() or restore()): the batch    *)
(*           operation it is in, its project and bucket, its concurrency,  *)
(*           the buckets still to be processed, whether some attempt of    *)
(*           its requests failed, and the outcome its last finished call   *)
(*           surfaced, and the buckets its create requests created         *)
(*   pc      where the top-level coroutine stands                          *)
(*   mreq    the _request_with_retry call the top-level coroutine awaits   *)
(*   lstack  the frames of the active recursive_list_files generators,     *)
(*           innermost last                                                *)
(*   listed  the items the listing has yielded to its consumer             *)
(*   tasks   the tasks of the current batch, in creation order             *)
(*   sem     the value of the batch's asyncio.Semaphore                    *)
(*   doneq   the finished tasks as_completed has not handed out yet        *)
(*   faults  the number of calls that met a failing attempt so far         *)
(*   log     the error lines printed in this run                           *)
(*   issued  the requests sent in this run                                 *)
(*   past    the runs that ended before this one                           *)
(*   sess    the migrator's client session and the tasks that ask for it   *)
(*   err     one error text on its way out: the migrator's key, the        *)
(*           response body and the text surfaced for it                    *)
(***************************************************************************)
VARIABLES sess, err, rq, remote, fs, run, pc, mreq, lstack, listed, tasks, sem, doneq,
          faults, log, issued, past

migratorVarsNoErr ==
    <<remote, fs, run, pc, mreq, lstack, listed, tasks, sem, doneq, faults, log,
      issued, past>>

migratorVars == <<sess, err, migratorVarsNoErr>>

migratorVarsRun ==
    <<fs, run, pc, mreq, lstack, listed, tasks, sem, doneq, faults, log, issued, past>>

vars ==
    <<sess, err, rq, remote, fs, run, pc, mreq, lstack, listed, tasks, sem, doneq, faults, log,
      issued, past>>

\* storage.py:27  no session object yet
Constructed == [cur |-> 0, closed |-> {}, made |-> <<>>, epoch |-> 1, callers |-> <<>>]

\* storage.py:29-31  __aenter__ has created the session the run works with
Entered == [cur |-> 1, closed |-> {}, made |-> <<0>>, epoch |-> 0, callers |-> <<>>]

\* no error text on its way out
NoErr == [key |-> <<>>, message |-> <<>>, text |-> <<>>, st |-> "none"]

NoReq == [st |-> "none", attempt |-> 0, faulty |-> FALSE]

\* no outcome yet
NoResult == [status |-> 0, exc |-> "unset"]

NoRun ==
    [kind |-> "none", op |-> "none", proj |-> "src", bucket |-> "none", n |-> 0,
     phase |-> "none", todo |-> {}, later |-> {}, clean |-> TRUE,
     last |-> [call |-> "none", o |-> NoResult], creates |-> <<>>]

\* the migrator before any run
Idle ==
    /\ run = NoRun
    /\ pc = "idle"
    /\ mreq = NoReq
    /\ lstack = <<>>
    /\ listed = <<>>
    /\ tasks = <<>>
    /\ sem = 0
    /\ doneq = <<>>
    /\ faults = 0
    /\ log = {}
    /\ issued = {}
    /\ past = <<>>

(***************************************************************************)
(* One call of _request_with_retry, observed on its own.                   *)
(***************************************************************************)
UnboundLocal == [status |-> 0, exc |-> "UnboundLocalError"]

\* storage.py:54-58  entering the call: the loop starts, or, with an empty
\* range, falls through to the trailing "return resp" with resp unbound.
RetryCall(r) ==
    [retries |-> r, attempt |-> 0,
     st |-> IF r > 0 THEN "inflight" ELSE "raised",
     hist |-> <<>>, delays |-> <<>>,
     result |-> IF r > 0 THEN NoResult ELSE UnboundLocal]

InitRetry ==
    /\ rq \in {RetryCall(r) : r \in 0..MaxRetries}
    /\ err = NoErr
    /\ sess = Entered
    /\ remote = [src |-> <<>>, tgt |-> <<>>]
    /\ fs = NoFs
    /\ Idle

\* storage.py:59-71  the awaited session.request of the current attempt
\* completes with outcome o, and the loop body runs up to its next await.
RetryAttempt(o) ==
    /\ rq.st = "inflight"
    /\ LET next == AfterAttempt(rq.attempt, rq.retries, o)
       IN rq' = [rq EXCEPT
                   !.hist = Append(@, o),
                   !.st = CASE next = "sleep" -> "sleeping"
                            [] next = "return" -> "returned"
                            [] OTHER -> "raised",
                   !.delays = IF next = "sleep"
                                THEN Append(@, BackoffDelay(rq.attempt)) ELSE @,
                   !.result = IF next = "sleep" THEN @ ELSE o]
    /\ UNCHANGED migratorVars

\* storage.py:63-64, 69-70  the sleep is over: continue with the next attempt
RetryWake ==
    /\ rq.st = "sleeping"
    /\ rq' = [rq EXCEPT !.attempt = @ + 1, !.st = "inflight"]
    /\ UNCHANGED migratorVars

NextRetry ==
    \/ \E o \in Outcomes : RetryAttempt(o)
    \/ RetryWake

SpecRetry == InitRetry /\ [][NextRetry]_vars

(***************************************************************************)
(* HTTP calls of the migrator's coroutines.  Each goes through             *)
(* _request_with_retry with the default budget.  The server answers a      *)
(* call with its success status; the environment may make up to            *)
(* MaxFaultyCalls calls meet other outcomes (any status, any exception).   *)
(***************************************************************************)
\* storage.py:55-60  the call starts with its first attempt
FirstAttempt == [st |-> "inflight", attempt |-> 0, faulty |-> FALSE]

FaultAllowed(req, o, ok) == o \in ok \/ req.faulty \/ faults < MaxFaultyCalls

FaultsAfter(req, o, ok) == IF o \in ok \/ req.faulty THEN faults ELSE faults + 1

\* storage.py:63, 69  the call sleeps before its next attempt
Sleeping(req, o, ok) == [req EXCEPT !.st = "sleeping", !.faulty = @ \/ o \notin ok]

\* storage.py:64, 70  continue: the next attempt
NextAttempt(req) == [req EXCEPT !.st = "inflight", !.attempt = @ + 1]

\* a run in which some attempt failed is no longer a run whose requests all succeed
Noted(r, o, ok) == [r EXCEPT !.clean = @ /\ o \in ok]

\* the call surfaced outcome o to the coroutine
Final(r, call, o) == [r EXCEPT !.last = [call |-> call, o |-> o]]

\* an exception other than those of the HTTP client
Error(e) == [status |-> 0, exc |-> e]

\* a request as the server sees it
Req(method, target, bucket, path) ==
    [method |-> method, target |-> target, bucket |-> bucket, path |-> path,
     ctype |-> "none", cache |-> <<>>, upsert |-> FALSE]

\* storage.py:75, 83  GET /storage/v1/bucket
BucketListReq == Req("GET", "bucket", "none", <<>>)

\* storage.py:112-117  POST /storage/v1/object/list/{bucket} {prefix: path, ...}
ListReq(b, path) == Req("POST", "list", b, path)

(***************************************************************************)
(* Tasks of a batch.  A task is "new" until it holds a permit of the       *)
(* semaphore, "run" while it holds one, then "done" (its coroutine         *)
(* returned) or "failed" (it raised); "cancelled" when the event loop      *)
(* shuts down before it ended.                                             *)
(***************************************************************************)
NewTask(path, item) ==
    [path |-> path, item |-> item, st |-> "new", req |-> NoReq, res |-> "none",
     last |-> NoResult]

\* the top-level coroutine awaits: the event loop runs the tasks
MainSuspended == mreq.st \in {"inflight", "sleeping"} \/ pc \in {"await", "raised"}

(***************************************************************************)
(* recursive_list_files: an asynchronous generator.  A frame is one active *)
(* call: its path, its offset, the page it iterates and the index of the   *)
(* next item of that page.  The innermost frame either awaits its page     *)
(* request (mreq) or iterates its page.                                    *)
(***************************************************************************)
\* storage.py:102  limit = 100
PageLimit == 100

\* storage.py:101-117  the call starts: offset 0, and the first page is requested
Frame(path) == [path |-> path, offset |-> 0, items |-> <<>>, idx |-> 0]

Top == lstack[Len(lstack)]

Pop(stack) == SubSeq(stack, 1, Len(stack) - 1)

\* the objects of the bucket the run works on; a bucket the store does not
\* hold has none
ObjectsOf(store, b) == IF b \in DOMAIN store THEN store[b] ELSE <<>>

Objects == ObjectsOf(remote[run.proj], run.bucket)

ListOk == {Resp(200)}

\* storage.py:136  item['full_path'] = ...
Yielded(path, item) ==
    [name |-> item.name, id |-> item.id, metadata |-> item.metadata,
     full_path |-> JoinPath(path, item.name)]

\* storage.py:139  if len(items) < limit: break
LastPage(items) == Len(items) < PageLimit

\* the variant in which a failed page ends the whole listing
AfterListErrorStop(stack) == <<>>

\* storage.py:119-122  "break": the generator of this prefix ends, the ones
\* that called it go on with their next item
AfterListError(stack) == Pop(stack)

\* storage.py:112-126  the page request is answered
ListPageRespond(o) ==
    /\ pc = "listing" /\ lstack # <<>> /\ mreq.st = "inflight"
    /\ FaultAllowed(mreq, o, ListOk)
    /\ faults' = FaultsAfter(mreq, o, ListOk)
    /\ run' = IF AfterAttempt(mreq.attempt, DefaultRetries, o) = "raise"
                 THEN Final(Noted(run, o, ListOk), "list", o)
                 ELSE Noted(run, o, ListOk)
    /\ LET next == AfterAttempt(mreq.attempt, DefaultRetries, o)
           page == ListPage(Objects, Top.path, PageLimit, Top.offset)
       IN CASE next = "sleep" ->
                 /\ mreq' = Sleeping(mreq, o, ListOk)
                 /\ UNCHANGED <<pc, lstack, log>>
            [] next = "raise" ->
                 \* the exception leaves the generators and their caller
                 /\ mreq' = NoReq
                 /\ pc' = "raised"
                 /\ lstack' = <<>>
                 /\ UNCHANGED log
            [] OTHER ->
                 /\ mreq' = NoReq
                 /\ pc' = pc
                 /\ IF o.status # 200
                      THEN /\ log' = log \cup {[what |-> "list", bucket |-> run.bucket,
                                                path |-> Top.path, status |-> o.status]}
                           /\ lstack' = AfterListError(lstack)
                      ELSE /\ log' = log
                           /\ lstack' = IF page = <<>> THEN Pop(lstack)
                                        ELSE [lstack EXCEPT ![Len(lstack)].items = page,
                                                            ![Len(lstack)].idx = 1]
    /\ UNCHANGED <<sess, err, rq, remote, fs, listed, tasks, sem, doneq, issued, past>>

\* storage.py:63-64, 69-70  the backoff sleep of the top-level coroutine's
\* call is over
MainWake ==
    /\ mreq.st = "sleeping"
    /\ mreq' = NextAttempt(mreq)
    /\ UNCHANGED <<sess, err, rq, remote, fs, run, pc, lstack, listed, tasks, sem, doneq, faults,
                   log, issued, past>>

\* the variant in which backup_bucket creates no task while it lists
ConsumedLater(op, ts, file) == ts

\* storage.py:178-179, 277-278  the consumer of the listing takes a record:
\* backup_bucket creates the download task at once, wipe_bucket keeps the
\* record for later
Consumed(op, ts, file) ==
    IF op = "backup" THEN Append(ts, NewTask(file.full_path, file)) ELSE ts

\* storage.py:128-137  the next item of the page: recurse into a directory,
\* or yield a file to the consumer (storage.py:178-179 backup_bucket creates
\* the download task, storage.py:277-278 wipe_bucket collects the item)
ListItem ==
    /\ pc = "listing" /\ lstack # <<>> /\ mreq.st = "none"
    /\ Top.idx <= Len(Top.items)
    /\ LET item == Top.items[Top.idx]
           advanced == [lstack EXCEPT ![Len(lstack)].idx = @ + 1]
           new_path == JoinPath(Top.path, item.name)
           file == Yielded(Top.path, item)
       IN IF item.id = "null"
            THEN /\ lstack' = Append(advanced, Frame(new_path))
                 /\ mreq' = FirstAttempt
                 /\ issued' = issued \cup {ListReq(run.bucket, new_path)}
                 /\ UNCHANGED <<listed, tasks>>
            ELSE /\ lstack' = advanced
                 /\ listed' = Append(listed, file)
                 /\ tasks' = Consumed(run.op, tasks, file)
                 /\ UNCHANGED <<mreq, issued>>
    /\ UNCHANGED <<sess, err, rq, remote, fs, run, pc, sem, doneq, faults, log, past>>

\* storage.py:139-141  the page is exhausted: stop, or request the next page
ListPageEnd ==
    /\ pc = "listing" /\ lstack # <<>> /\ mreq.st = "none"
    /\ Top.idx > Len(Top.items)
    /\ IF LastPage(Top.items)
         THEN /\ lstack' = Pop(lstack)
              /\ mreq' = mreq
         ELSE /\ lstack' = [lstack EXCEPT ![Len(lstack)].offset = @ + PageLimit,
                                           ![Len(lstack)].items = <<>>,
                                           ![Len(lstack)].idx = 0]
              /\ mreq' = FirstAttempt
    /\ UNCHANGED <<sess, err, rq, remote, fs, run, pc, listed, tasks, sem, doneq, faults, log,
                   issued, past>>

(***************************************************************************)
(* The listing on its own: one bucket, listed from its root, the items     *)
(* collected by the consumer.                                              *)
(***************************************************************************)
Digit == <<"0", "1", "2", "3", "4", "5", "6", "7", "8", "9">>

FileName(i) ==
    <<"f", Digit[(i \div 100) + 1], Digit[((i \div 10) % 10) + 1], Digit[(i % 10) + 1]>>

FilesIn(dir, n) ==
    {(IF dir = <<>> THEN <<>> ELSE dir \o <<Slash>>) \o FileName(i) : i \in 1..n}

PlainMeta == [present |-> TRUE, mimetype |-> "text/plain", cacheControl |-> <<"3600">>]

PlainObjects(keys) == [k \in keys |-> [content |-> 1, metadata |-> PlainMeta]]

\* the numbers of files a directory of the listing model holds
PageCounts ==
    {0, 1, PageLimit - 1, PageLimit + 1} \cup {q * PageLimit : q \in 1..MaxFullPages}

\* a file and a directory of the same name, and a name with the sidecar suffix
OddKeys == {<<"g">>, <<"g", Slash, "a">>, <<"a", Suffix>>}

ListBuckets ==
    {FilesIn(<<>>, r) \cup FilesIn(<<"d">>, d) \cup FilesIn(<<"d", Slash, "e">>, e) \cup odd :
       r \in PageCounts, d \in {0, 1, PageLimit}, e \in {0, 2}, odd \in {{}, OddKeys}}

InitList ==
    /\ rq = RetryCall(DefaultRetries)
    /\ err = NoErr
    /\ sess = Entered
    /\ \E keys \in ListBuckets :
         remote = [src |-> [b \in {"b1"} |-> PlainObjects(keys)], tgt |-> <<>>]
    /\ fs = NoFs
    /\ run = [NoRun EXCEPT !.kind = "list", !.op = "list", !.bucket = "b1"]
    /\ pc = "listing"
    /\ mreq = FirstAttempt
    /\ lstack = <<Frame(<<>>)>>
    /\ listed = <<>>
    /\ tasks = <<>>
    /\ sem = 0
    /\ doneq = <<>>
    /\ faults = 0
    /\ log = {}
    /\ issued = {ListReq("b1", <<>>)}
    /\ past = <<>>

NextList ==
    \/ \E o \in Outcomes : ListPageRespond(o)
    \/ MainWake
    \/ ListItem
    \/ ListPageEnd

SpecList == InitList /\ [][NextList]_vars

(***************************************************************************)
(* The storage server: what a request does and how it is answered when     *)
(* nothing fails.                                                          *)
(***************************************************************************)
HasObject(store, b, key) == b \in DOMAIN store /\ key \in DOMAIN store[b]

\* POST /storage/v1/object/{bucket}/{path}: the object is stored
StoreObject(store, b, key, obj) ==
    [store EXCEPT ![b] = [k \in DOMAIN @ \cup {key} |-> IF k = key THEN obj ELSE @[k]]]

\* DELETE /storage/v1/object/{bucket}/{path}: the object is gone
RemoveObject(store, b, key) ==
    [store EXCEPT ![b] = [k \in DOMAIN @ \ {key} |-> @[k]]]

\* POST /storage/v1/bucket: the bucket exists, empty
CreateBucket(store, b) == [c \in DOMAIN store \cup {b} |-> IF c = b THEN <<>> ELSE store[c]]

\* the status the server answers a request with
Natural(store, r) ==
    CASE r.target = "bucket" /\ r.method = "GET" -> 200
      [] r.target = "bucket" /\ r.method = "POST" ->
           IF r.bucket \in DOMAIN store THEN 409 ELSE 200
      [] r.target = "list" -> 200
      [] r.target = "object" /\ r.method = "POST" ->
           IF r.bucket \notin DOMAIN store THEN 404
           ELSE IF HasObject(store, r.bucket, Unquote(r.path)) /\ ~r.upsert THEN 409
           ELSE 200
      [] OTHER -> IF HasObject(store, r.bucket, Unquote(r.path)) THEN 200 ELSE 404

\* the outcomes of a request that do not count as failures of the environment
Expected(store, r) ==
    IF Natural(store, r) = 200 /\ r.method = "POST" /\ r.target # "list"
      THEN {Resp(200), Resp(201)}
      ELSE {Resp(Natural(store, r))}

\* the server has done what the request asks for
Served(store, r, o) == IsResp(o) /\ o.status \in {200, 201} /\ Natural(store, r) = 200

\* an answer the server can give: it does not report a success it cannot serve
Answerable(store, r, o) == (IsResp(o) /\ o.status \in {200, 201}) => Served(store, r, o)

(***************************************************************************)
(* The three kinds of task.                                                *)
(***************************************************************************)
\* storage.py:225-228  the Content-Type of an upload
Lower(m) == IF m = "IMAGE/JPG" THEN "image/jpg" ELSE m

DefaultMime == "application/octet-stream"

\* the variant that sends the recorded mimetype as it is
ContentTypeNoAlias(meta) ==
    IF meta.mimetype \in {"null", ""} THEN DefaultMime ELSE meta.mimetype

ContentType(meta) ==
    LET mime == IF meta.mimetype \in {"null", ""} THEN DefaultMime ELSE meta.mimetype
    IN IF Lower(mime) = "image/jpg" THEN "image/jpeg" ELSE mime

\* storage.py:230-232  cache-control: max-age=<cacheControl or 3600>
CacheHeader(meta) ==
    <<"max-age=">> \o (IF meta.cacheControl = <<>> THEN <<"3600">> ELSE meta.cacheControl)

\* the variant that sends DELETE in place of GET
DownloadReqDelete(b, path) == Req("DELETE", "object", b, Quote(path))

\* storage.py:159-163  GET /storage/v1/object/{bucket}/{quote(full_path)}
DownloadReq(b, path) == Req("GET", "object", b, Quote(path))

\* storage.py:221-243  POST /storage/v1/object/{bucket}/{quote(rel_path)}
UploadReq(b, path, meta) ==
    [Req("POST", "object", b, Quote(path)) EXCEPT
       !.ctype = ContentType(meta), !.cache = CacheHeader(meta), !.upsert = TRUE]

\* storage.py:257-262  DELETE /storage/v1/object/{bucket}/{quote(path)}
DeleteReq(b, path) == Req("DELETE", "object", b, Quote(path))

\* the request of task t of the current batch
TaskReq(t) ==
    CASE run.op = "backup" -> DownloadReq(run.bucket, t.path)
      [] run.op = "restore" -> UploadReq(run.bucket, t.path, t.item.metadata)
      [] OTHER -> DeleteReq(run.bucket, t.path)

\* storage.py:165, 245, 264  the statuses the task takes as a success
TaskSuccess(o) ==
    IsResp(o) /\ o.status \in (IF run.op = "restore" THEN {200, 201} ELSE {200})

\* storage.py:164-171, 244-247, 263-266  what a task does with the outcome of
\* its call: a response that is no success is printed, an exception is not caught
TaskVerdictRaising(next, o) ==
    IF next # "return" THEN next ELSE IF TaskSuccess(o) THEN "ok" ELSE "raise"

TaskVerdict(next, o) ==
    IF next # "return" THEN next ELSE IF TaskSuccess(o) THEN "ok" ELSE "log"

\* asyncio.Semaphore.acquire: a permit is taken when the value is positive
CanAcquireAlways(value) == TRUE

CanAcquire(value) == value > 0

\* the task ends inside "async with sem": its permit is released and
\* as_completed learns of it
Ended(i, st, res, o, held) ==
    /\ tasks' = [tasks EXCEPT ![i].st = st, ![i].res = res, ![i].req = NoReq,
                              ![i].last = o]
    /\ sem' = IF held THEN sem + 1 ELSE sem
    /\ doneq' = Append(doneq, i)

\* storage.py:150-163, 219-243, 310-312  a task gets its permit and runs up
\* to the first attempt of its request
TaskStart(i) ==
    /\ MainSuspended
    /\ tasks[i].st = "new"
    /\ CanAcquire(sem)
    /\ LET t == tasks[i]
           local == LocalPath(run.bucket, t.path)
           made == Makedirs(fs, Dirname(local))
           started == /\ tasks' = [tasks EXCEPT ![i].st = "run", ![i].req = FirstAttempt]
                      /\ sem' = sem - 1
                      /\ doneq' = doneq
                      /\ issued' = issued \cup {TaskReq(t)}
       IN IF run.op = "backup"
            THEN IF MakedirsFails(fs, Dirname(local))
                   THEN /\ Ended(i, "failed", "oserror", Error("OSError"), FALSE)
                        /\ UNCHANGED <<fs, issued>>
                 ELSE IF OpenFails(made, SidecarOf(local))
                   THEN /\ Ended(i, "failed", "oserror", Error("OSError"), FALSE)
                        /\ fs' = made
                        /\ UNCHANGED issued
                 ELSE /\ fs' = WriteFile(made, SidecarOf(local), Json(t.item))
                      /\ started
            ELSE /\ started
                 /\ fs' = fs
    /\ UNCHANGED <<sess, err, rq, remote, run, pc, mreq, lstack, listed, faults, log, past>>

\* what the server does when it serves the request of task t
ServedStore(store, t) ==
    CASE run.op = "restore" ->
           StoreObject(store, run.bucket, t.path,
                       [content |-> fs.files[LocalPath(run.bucket, t.path)].data,
                        metadata |-> [present |-> TRUE,
                                      mimetype |-> TaskReq(t).ctype,
                                      cacheControl |-> TaskReq(t).cache]])
      [] run.op = "wipe" -> RemoveObject(store, run.bucket, Unquote(TaskReq(t).path))
      [] OTHER -> store

LogLine(what, t, o) ==
    [what |-> what, bucket |-> run.bucket, path |-> t.path, status |-> o.status]

\* storage.py:164-171, 244-247, 263-266  the attempt of a task's request is
\* answered and the task runs on: to its backoff sleep, or to its end
TaskRespond(i, o) ==
    /\ MainSuspended
    /\ tasks[i].st = "run" /\ tasks[i].req.st = "inflight"
    /\ LET t == tasks[i]
           r == TaskReq(t)
           store == remote[run.proj]
           verdict == TaskVerdict(AfterAttempt(t.req.attempt, DefaultRetries, o), o)
           local == LocalPath(run.bucket, t.path)
       IN /\ Answerable(store, r, o)
          /\ FaultAllowed(t.req, o, Expected(store, r))
          /\ faults' = FaultsAfter(t.req, o, Expected(store, r))
          /\ run' = [run EXCEPT !.clean = @ /\ TaskSuccess(o)]
          /\ remote' = IF Served(store, r, o)
                         THEN [remote EXCEPT ![run.proj] = ServedStore(store, t)]
                         ELSE remote
          /\ CASE verdict = "sleep" ->
                    /\ tasks' = [tasks EXCEPT ![i].req = Sleeping(t.req, o, Expected(store, r))]
                    /\ UNCHANGED <<fs, sem, doneq, log>>
               [] verdict = "raise" ->
                    /\ Ended(i, "failed", "exc", o, TRUE)
                    /\ UNCHANGED <<fs, log>>
               [] verdict = "log" ->
                    /\ Ended(i, "done", "logged", o, TRUE)
                    /\ log' = log \cup {LogLine(run.op, t, o)}
                    /\ fs' = fs
               [] verdict = "ok" /\ run.op # "backup" ->
                    /\ Ended(i, "done", "ok", o, TRUE)
                    /\ UNCHANGED <<fs, log>>
               [] OTHER ->
                    \* storage.py:166-168  the content is written
                    /\ log' = log
                    /\ IF OpenFails(fs, local)
                         THEN /\ Ended(i, "failed", "oserror", Error("OSError"), TRUE)
                              /\ fs' = fs
                         ELSE /\ Ended(i, "done", "ok", o, TRUE)
                              /\ fs' = WriteFile(fs, local, Bytes(store[run.bucket][t.path].content))
    /\ UNCHANGED <<sess, err, rq, pc, mreq, lstack, listed, issued, past>>

\* storage.py:63-64, 69-70  the backoff sleep of a task's call is over
TaskWake(i) ==
    /\ MainSuspended
    /\ tasks[i].st = "run" /\ tasks[i].req.st = "sleeping"
    /\ tasks' = [tasks EXCEPT ![i].req = NextAttempt(@)]
    /\ UNCHANGED <<sess, err, rq, remote, fs, run, pc, mreq, lstack, listed, sem, doneq, faults,
                   log, issued, past>>

(***************************************************************************)
(* The batch loops: "for f in asyncio.as_completed(tasks): await f".       *)
(***************************************************************************)
Finished(t) == t.st \in {"done", "failed"}

\* what follows a batch, or a batch function's early return
AfterBatch ==
    IF run.op = "wipe" /\ run.phase = "A" THEN "restore_walk" ELSE "next_bucket"

\* the variant in which the loop ends with the first task handed out
AllAwaitedFirst(ts, rest) == TRUE

\* the variant in which the loop ends as soon as no finished task waits
AllAwaitedQueueEmpty(ts, rest) == rest = <<>>

\* storage.py:184-186, 250-252, 315-317  as_completed has handed out every
\* task of the batch
AllAwaited(ts, rest) == rest = <<>> /\ \A i \in 1..Len(ts) : Finished(ts[i])

\* storage.py:184-186, 250-252, 315-317  the next finished task is awaited:
\* its exception, if any, is raised here; after the last one the loop ends
MainAwait ==
    /\ pc = "await" /\ doneq # <<>>
    /\ doneq' = Tail(doneq)
    /\ pc' = IF tasks[Head(doneq)].st = "failed" THEN "raised"
             ELSE IF AllAwaited(tasks, Tail(doneq)) THEN AfterBatch
             ELSE pc
    /\ run' = IF tasks[Head(doneq)].st = "failed"
                 THEN Final(run, "task", tasks[Head(doneq)].last) ELSE run
    /\ UNCHANGED <<sess, err, rq, remote, fs, mreq, lstack, listed, tasks, sem, faults, log,
                   issued, past>>

\* an exception left the top-level coroutine: asyncio.run cancels the tasks
\* that have not ended and the process exits
Teardown ==
    /\ pc = "raised"
    /\ pc' = "crashed"
    /\ tasks' = [i \in 1..Len(tasks) |->
                   IF Finished(tasks[i]) THEN tasks[i]
                   ELSE [tasks[i] EXCEPT !.st = "cancelled", !.req = NoReq]]
    /\ UNCHANGED <<sess, err, rq, remote, fs, run, mreq, lstack, listed, sem, doneq, faults, log,
                   issued, past>>

\* storage.py:143-147, 178 and 272-277  backup_bucket and wipe_bucket start
\* by listing the bucket from its root
BeginListing(r, op, b, f) ==
    /\ run' = [r EXCEPT !.op = op, !.bucket = b, !.todo = @ \ {b}]
    /\ fs' = f
    /\ pc' = "listing"
    /\ lstack' = <<Frame(<<>>)>>
    /\ mreq' = FirstAttempt
    /\ issued' = issued \cup {ListReq(b, <<>>)}
    /\ listed' = <<>>
    /\ tasks' = <<>>
    /\ doneq' = <<>>
    /\ sem' = IF op = "backup" THEN r.n ELSE 0

\* storage.py:298-303  the listed paths the local snapshot does not hold
FilesToDeleteAll(remote_files, local_files_set) ==
    [i \in 1..Len(remote_files) |-> remote_files[i].full_path]

FilesToDeleteNone(remote_files, local_files_set) == <<>>

\* the variant with the test inverted: the listed paths the snapshot holds
FilesToDeleteHeld(remote_files, local_files_set) ==
    SelectSeq(FilesToDeleteAll(remote_files, local_files_set),
              LAMBDA path : path \in local_files_set)

RECURSIVE FilesToDelete(_, _)
FilesToDelete(remote_files, local_files_set) ==
    IF remote_files = <<>> THEN <<>>
    ELSE LET rf == Head(remote_files)
             rest == FilesToDelete(Tail(remote_files), local_files_set)
         IN IF rf.full_path \notin local_files_set THEN <<rf.full_path>> \o rest ELSE rest

\* storage.py:283-296  the local content files of the bucket
LocalFilesSet(f, b) == IF Exists(f, BucketDir(b)) THEN LocalFiles(f, b) ELSE {}

\* storage.py:181-184 and 280-314  the listing is over
ListingDone ==
    /\ pc = "listing" /\ lstack = <<>> /\ mreq.st = "none"
    /\ run.op \in {"backup", "wipe"}
    /\ LET dels == FilesToDelete(listed, LocalFilesSet(fs, run.bucket))
       IN IF run.op = "backup"
            THEN /\ pc' = IF tasks = <<>> THEN AfterBatch ELSE "await"
                 /\ UNCHANGED <<tasks, sem>>
            ELSE /\ pc' = IF listed = <<>> \/ dels = <<>> THEN AfterBatch ELSE "await"
                 /\ tasks' = [i \in 1..Len(dels) |-> NewTask(dels[i], NoItem)]
                 /\ sem' = IF dels = <<>> THEN sem ELSE run.n
    /\ UNCHANGED <<sess, err, rq, remote, fs, run, mreq, lstack, listed, doneq, faults, log,
                   issued, past>>

\* storage.py:204-208  the metadata of a content file: its sidecar, if any
MetaUnreadable(f, p) ==
    Exists(f, SidecarOf(p)) /\ (~IsFile(f, SidecarOf(p)) \/ f.files[SidecarOf(p)].kind # "json")

MetaOf(f, p) == IF Exists(f, SidecarOf(p)) THEN f.files[SidecarOf(p)].item ELSE NoItem

\* storage.py:190-249  restore_bucket up to its batch loop
RestoreWalk ==
    /\ pc = "restore_walk"
    /\ LET root == BucketDir(run.bucket)
           found == {p \in Walk(fs, root) : ~EndsWithSuffix(p)}
           files_to_upload == SeqOf(found)
       IN IF ~Exists(fs, root) \/ found = {}
            THEN /\ pc' = "next_bucket"
                 /\ run' = [run EXCEPT !.op = "restore"]
                 /\ tasks' = <<>>
                 /\ UNCHANGED <<sem, doneq>>
          ELSE IF \E p \in found : MetaUnreadable(fs, p)
            THEN /\ pc' = "raised"
                 /\ run' = Final([run EXCEPT !.op = "restore"], "walk", Error("JSONDecodeError"))
                 /\ tasks' = <<>>
                 /\ UNCHANGED <<sem, doneq>>
          ELSE /\ pc' = "await"
               /\ run' = [run EXCEPT !.op = "restore"]
               /\ tasks' = [i \in 1..Len(files_to_upload) |->
                              NewTask(Relpath(files_to_upload[i], root),
                                      MetaOf(fs, files_to_upload[i]))]
               /\ sem' = run.n
               /\ doneq' = <<>>
    /\ UNCHANGED <<sess, err, rq, remote, fs, mreq, lstack, listed, faults, log, issued, past>>

(***************************************************************************)
(* backup() and restore().                                                 *)
(***************************************************************************)
MaxRuns == 2

MaxConcurrency == 2

RunRecord(kind) ==
    [kind |-> kind, fs0 |-> fs, remote0 |-> remote, end |-> "running", clean |-> TRUE,
     creates |-> <<>>]

\* the runs so far, the one that just ended closed
Closed(runs) ==
    IF runs = <<>> THEN runs
    ELSE [runs EXCEPT ![Len(runs)].end = pc, ![Len(runs)].clean = run.clean,
                      ![Len(runs)].creates = run.creates]

\* storage.py:321-331 and 336-353  the process starts backup(concurrency) or
\* restore(concurrency) and runs it up to its first await
StartRun(kind, n) ==
    /\ pc \in {"idle", "done", "exit1", "crashed"}
    /\ Len(past) < MaxRuns
    /\ past' = Append(Closed(past), RunRecord(kind))
    /\ LET missing == kind = "restore" /\ <<>> \notin fs.dirs
       IN /\ run' = [NoRun EXCEPT !.kind = kind, !.n = n,
                                  !.proj = IF kind = "backup" THEN "src" ELSE "tgt"]
          /\ pc' = IF missing THEN "exit1" ELSE "r_list"
          /\ mreq' = IF missing THEN NoReq ELSE FirstAttempt
          /\ issued' = IF missing THEN {} ELSE {BucketListReq}
          /\ fs' = IF kind = "backup" THEN Makedirs(fs, <<>>) ELSE fs
    /\ lstack' = <<>> /\ listed' = <<>> /\ tasks' = <<>> /\ doneq' = <<>>
    /\ sem' = 0 /\ log' = {} /\ faults' = faults
    /\ UNCHANGED <<sess, err, rq, remote>>

\* storage.py:74-80  list_buckets: a status other than 200 raises
ListBucketsNextNoRaise(o) == AfterAttempt(mreq.attempt, DefaultRetries, o)

ListBucketsNextRaise5xx(o) ==
    LET next == AfterAttempt(mreq.attempt, DefaultRetries, o)
    IN IF next = "return" /\ o.status >= 500 THEN "raise" ELSE next

ListBucketsNext(o) ==
    LET next == AfterAttempt(mreq.attempt, DefaultRetries, o)
    IN IF next = "return" /\ o.status # 200 THEN "raise" ELSE next

BucketNames(store) == DOMAIN store

\* the variant that leaves the buckets outside the backup alone
NotInBackupNone(remote_bucket_names, local_bucket_names) == {}

\* storage.py:372-373  the remote buckets that have no directory in the backup
NotInBackup(remote_bucket_names, local_bucket_names) ==
    remote_bucket_names \ local_bucket_names

\* a call of the top-level coroutine is answered: the bookkeeping
MainAnswered(r, o) ==
    /\ mreq.st = "inflight"
    /\ Answerable(remote[run.proj], r, o)
    /\ FaultAllowed(mreq, o, Expected(remote[run.proj], r))
    /\ faults' = FaultsAfter(mreq, o, Expected(remote[run.proj], r))

\* storage.py:331-333 and 353-361  the bucket list of the run is answered
BucketsRespond(o) ==
    /\ pc = "r_list"
    /\ MainAnswered(BucketListReq, o)
    /\ LET next == ListBucketsNext(o)
           names == BucketNames(remote[run.proj])
           ok == Expected(remote[run.proj], BucketListReq)
       IN /\ mreq' = IF next = "sleep" THEN Sleeping(mreq, o, ok) ELSE NoReq
          /\ pc' = CASE next = "sleep" -> pc
                     [] next = "raise" -> "raised"
                     [] OTHER -> "next_bucket"
          /\ run' = IF next = "return"
                      THEN IF run.kind = "backup"
                             THEN [Final(Noted(run, o, ok), "buckets", o) EXCEPT
                                     !.phase = "B", !.todo = names]
                             ELSE [Final(Noted(run, o, ok), "buckets", o) EXCEPT
                                     !.phase = "A", !.todo = LocalBuckets(fs),
                                     !.later = NotInBackup(names, LocalBuckets(fs))]
                    ELSE IF next = "raise" THEN Final(Noted(run, o, ok), "buckets", o)
                    ELSE Noted(run, o, ok)
    /\ UNCHANGED <<sess, err, rq, remote, fs, lstack, listed, tasks, sem, doneq, log, issued, past>>

\* storage.py:333-334, 361-363, 372-376  the loops over the buckets
NextBucket ==
    /\ pc = "next_bucket"
    /\ IF run.todo = {}
         THEN /\ run' = IF run.phase = "A"
                          THEN [run EXCEPT !.phase = "B", !.todo = run.later, !.later = {},
                                           !.op = "none"]
                          ELSE [run EXCEPT !.op = "none"]
              /\ pc' = IF run.phase = "A" THEN pc ELSE "done"
              /\ UNCHANGED <<fs, mreq, lstack, listed, tasks, sem, doneq, issued>>
         ELSE \E b \in run.todo :
                CASE run.kind = "backup" ->
                       BeginListing(run, "backup", b, Makedirs(fs, BucketDir(b)))
                  [] run.phase = "B" -> BeginListing(run, "wipe", b, fs)
                  [] OTHER ->
                       /\ run' = [run EXCEPT !.op = "create", !.bucket = b, !.todo = @ \ {b}]
                       /\ pc' = "c_list"
                       /\ mreq' = FirstAttempt
                       /\ issued' = issued \cup {BucketListReq}
                       /\ UNCHANGED <<fs, lstack, listed, tasks, sem, doneq>>
    /\ UNCHANGED <<sess, err, rq, remote, faults, log, past>>

\* storage.py:87-94  POST /storage/v1/bucket
CreateReq(b) == Req("POST", "bucket", b, <<>>)

\* storage.py:84  any(b['name'] == bucket['name'] for b in current_buckets)
BucketListedAlways(name, current_buckets) == TRUE

BucketListed(name, current_buckets) == name \in current_buckets

\* the create request was served: the run has created the bucket
Created(r, store, req, o) ==
    IF Served(store, req, o) THEN [r EXCEPT !.creates = Append(@, req.bucket)] ELSE r

\* storage.py:83-94  create_bucket_if_missing: the bucket list is answered
CreateListRespond(o) ==
    /\ pc = "c_list"
    /\ MainAnswered(BucketListReq, o)
    /\ LET next == ListBucketsNext(o)
           ok == Expected(remote[run.proj], BucketListReq)
           known == BucketListed(run.bucket, BucketNames(remote[run.proj]))
       IN CASE next = "sleep" ->
                 /\ mreq' = Sleeping(mreq, o, ok)
                 /\ run' = Noted(run, o, ok)
                 /\ UNCHANGED <<pc, fs, lstack, listed, tasks, sem, doneq, issued>>
            [] next = "raise" ->
                 /\ mreq' = NoReq
                 /\ pc' = "raised"
                 /\ run' = Final(Noted(run, o, ok), "create_list", o)
                 /\ UNCHANGED <<fs, lstack, listed, tasks, sem, doneq, issued>>
            [] next = "return" /\ known ->
                 BeginListing(Final(run, "create_list", o), "wipe", run.bucket, fs)
            [] OTHER ->
                 /\ mreq' = FirstAttempt
                 /\ pc' = "c_create"
                 /\ issued' = issued \cup {CreateReq(run.bucket)}
                 /\ run' = Final(run, "create_list", o)
                 /\ UNCHANGED <<fs, lstack, listed, tasks, sem, doneq>>
    /\ UNCHANGED <<sess, err, rq, remote, log, past>>

\* storage.py:96  the statuses create_bucket_if_missing tolerates
CreateToleratedOnlySuccess == {200, 201}

CreateTolerated == {200, 201, 400, 409}

\* storage.py:94-99  the bucket creation is answered
CreateRespond(o) ==
    /\ pc = "c_create"
    /\ MainAnswered(CreateReq(run.bucket), o)
    /\ LET r == CreateReq(run.bucket)
           store == remote[run.proj]
           ok == Expected(store, r)
           next == AfterAttempt(mreq.attempt, DefaultRetries, o)
       IN /\ remote' = IF Served(store, r, o)
                         THEN [remote EXCEPT ![run.proj] = CreateBucket(store, run.bucket)]
                         ELSE remote
          /\ CASE next = "sleep" ->
                    /\ mreq' = Sleeping(mreq, o, ok)
                    /\ run' = Noted(run, o, ok)
                    /\ UNCHANGED <<pc, fs, lstack, listed, tasks, sem, doneq, issued>>
               [] next = "raise" \/ (next = "return" /\ o.status \notin CreateTolerated) ->
                    /\ mreq' = NoReq
                    /\ pc' = "raised"
                    /\ run' = Final(Noted(run, o, ok), "create", o)
                    /\ UNCHANGED <<fs, lstack, listed, tasks, sem, doneq, issued>>
               [] OTHER ->
                    BeginListing(Created(Final(Noted(run, o, ok), "create", o), store, r, o),
                                 "wipe", run.bucket, fs)
    /\ UNCHANGED <<sess, err, rq, log, past>>

(***************************************************************************)
(* The runs of the tool: a source project, a target project and a local    *)
(* backup directory, and up to MaxRuns runs of backup or restore.          *)
(***************************************************************************)
KeyA == <<"a">>

KeyS == <<"a", Suffix>>

KeyD == <<"d", Slash, " ">>

Keys == {KeyA, KeyS, KeyD}

\* the metadata the source's objects were uploaded with
MetaFor(key) ==
    CASE key = KeyA -> [present |-> TRUE, mimetype |-> "image/jpg", cacheControl |-> <<"60">>]
      [] key = KeyD -> [present |-> TRUE, mimetype |-> "IMAGE/JPG", cacheControl |-> <<>>]
      [] OTHER -> [present |-> TRUE, mimetype |-> "null", cacheControl |-> <<"3600">>]

ObjectsWith(keys, c) == [k \in keys |-> [content |-> c, metadata |-> MetaFor(k)]]

\* objects whose listing record carries no metadata record
Bare(keys, c) == [k \in keys |-> [content |-> c, metadata |-> NullMeta]]

\* the listing record of an object, as recursive_list_files yields it
RecordOf(objs, key) ==
    [name |-> Basename(key), id |-> "id", metadata |-> objs[key].metadata, full_path |-> key]

\* the local snapshot holding a content file and, where asked, a sidecar for
\* each object of the store
SnapshotOf(store, sidecars) ==
    LET held == {e \in (DOMAIN store) \X Keys : e[2] \in DOMAIN store[e[1]]}
        content == {LocalPath(e[1], e[2]) : e \in held}
        meta == IF sidecars THEN {SidecarOf(LocalPath(e[1], e[2])) : e \in held} ELSE {}
        entry(p) == CHOOSE e \in held : p \in {LocalPath(e[1], e[2]), SidecarOf(LocalPath(e[1], e[2]))}
    IN [dirs |-> {<<>>} \cup {BucketDir(b) : b \in DOMAIN store}
                  \cup UNION {Ancestors(p) : p \in content},
        files |-> [p \in content \cup meta |->
                     IF p \in content
                       THEN Bytes(store[entry(p)[1]][entry(p)[2]].content)
                       ELSE Json(RecordOf(store[entry(p)[1]], entry(p)[2]))]]

OneBucket(objs) == [b \in {"b1"} |-> objs]

TwoBuckets(objs1, objs2) == [b \in {"b1", "b2"} |-> IF b = "b1" THEN objs1 ELSE objs2]

\* the source projects of the model
SourceStores ==
    {OneBucket(ObjectsWith(K, 1)) : K \in SUBSET Keys}
      \cup {<<>>, TwoBuckets(ObjectsWith({KeyA}, 1), ObjectsWith({KeyD}, 1))}

\* the target projects of the model
TargetStores ==
    {<<>>, OneBucket(<<>>), OneBucket(ObjectsWith({KeyS, KeyD}, 2)),
     OneBucket(ObjectsWith(Keys, 2)),
     TwoBuckets(ObjectsWith({KeyD}, 2), ObjectsWith({KeyA, KeyD}, 2))}

\* a project that an earlier backup captured and an earlier restore copied
\* to the target
Mirrored == OneBucket(ObjectsWith({KeyA, KeyD}, 1))

\* the objects of a store as a restore of its snapshot uploads them
Restored(store) ==
    [b \in DOMAIN store |->
       [k \in DOMAIN store[b] |->
          [content |-> store[b][k].content,
           metadata |-> [present |-> TRUE,
                         mimetype |-> ContentType(store[b][k].metadata),
                         cacheControl |-> CacheHeader(store[b][k].metadata)]]]]

\* the local backup directories of the model: none, an empty one, snapshots
\* with and without sidecars
Snapshots ==
    {NoFs, SnapshotOf(<<>>, TRUE),
     SnapshotOf(OneBucket(<<>>), TRUE),
     SnapshotOf(OneBucket(ObjectsWith({KeyA}, 1)), TRUE),
     SnapshotOf(OneBucket(ObjectsWith({KeyA, KeyD}, 1)), TRUE),
     SnapshotOf(OneBucket(ObjectsWith({KeyA, KeyD}, 1)), FALSE),
     SnapshotOf(OneBucket(Bare({KeyA}, 1)), TRUE),
     SnapshotOf(TwoBuckets(ObjectsWith({KeyA}, 1), ObjectsWith({KeyD}, 1)), TRUE)}

Init ==
    /\ rq = RetryCall(DefaultRetries)
    /\ err = NoErr
    /\ sess = Entered
    /\ \/ \E s \in SourceStores, t \in {<<>>, OneBucket(ObjectsWith({KeyD}, 2))} :
            /\ remote = [src |-> s, tgt |-> t]
            /\ fs = NoFs
       \/ \E t \in TargetStores, f \in Snapshots :
            /\ remote = [src |-> <<>>, tgt |-> t]
            /\ fs = f
       \/ /\ remote = [src |-> Mirrored, tgt |-> Restored(Mirrored)]
          /\ fs = SnapshotOf(Mirrored, TRUE)
    /\ Idle

\* between two runs somebody deletes an object from the source project
SourceDelete(b, k) ==
    /\ pc = "idle"
    /\ remote.src = Mirrored /\ remote.tgt = Restored(Mirrored)
    /\ HasObject(remote.src, b, k)
    /\ remote' = [remote EXCEPT !.src = RemoveObject(@, b, k)]
    /\ UNCHANGED <<sess, err, rq, migratorVarsRun>>

Next ==
    \/ \E b \in DOMAIN remote.src, k \in Keys : SourceDelete(b, k)
    \/ \E kind \in {"backup", "restore"}, n \in 1..MaxConcurrency : StartRun(kind, n)
    \/ \E o \in Outcomes : BucketsRespond(o)
    \/ NextBucket
    \/ \E o \in Outcomes : CreateListRespond(o)
    \/ \E o \in Outcomes : CreateRespond(o)
    \/ \E o \in Outcomes : ListPageRespond(o)
    \/ MainWake
    \/ ListItem
    \/ ListPageEnd
    \/ ListingDone
    \/ RestoreWalk
    \/ \E i \in 1..Len(tasks) : TaskStart(i)
    \/ \E i \in 1..Len(tasks), o \in Outcomes : TaskRespond(i, o)
    \/ \E i \in 1..Len(tasks) : TaskWake(i)
    \/ MainAwait
    \/ Teardown

Spec == Init /\ [][Next]_vars

(***************************************************************************)
(* Claims about _request_with_retry (checked under SpecRetry).             *)
(***************************************************************************)
\* the statuses the specification calls retryable: 5xx and 429
TransientStatus(o) == o.exc = "none" /\ (o.status >= 500 \/ o.status = 429)

NetworkFailure(o) == o.exc \in NetworkErrors

CallOver == rq.st \in {"returned", "raised"}

AllTransient(h) == \A i \in 1..Len(h) : TransientStatus(h[i])

\* C6: with the default budget of 3, a call whose first two responses have
\* a retryable status (>= 500 or 429) is still running after each of them,
\* and its third response, whatever its status (200, or 503 again), is
\* returned to the caller as the result of the call; no fourth attempt is
\* ever made.
C6_RetryOnStatus ==
    rq.retries = DefaultRetries =>
      /\ Len(rq.hist) <= 3
      /\ (Len(rq.hist) \in 1..2 /\ AllTransient(rq.hist)) => ~CallOver
      /\ (/\ Len(rq.hist) = 3
          /\ AllTransient(SubSeq(rq.hist, 1, 2))
          /\ rq.hist[3].exc = "none")
           => /\ rq.st = "returned"
              /\ rq.result = rq.hist[3]
              /\ rq.attempt = 2

C6_Witness ==
    /\ rq.retries = DefaultRetries
    /\ rq.hist = <<Resp(503), Resp(503), Resp(200)>>
    /\ rq.st = "returned"
    /\ rq.result = Resp(200)

\* C7: with the default budget of 3, a network exception on attempt 1 or 2
\* is followed by the same backoff as a retryable status (k time units
\* after attempt k) and the call goes on; at most 3 attempts are made; and
\* when the third attempt raises, the call raises that last exception.
C7_RetryOnException ==
    rq.retries = DefaultRetries =>
      /\ Len(rq.hist) <= 3
      /\ \A k \in 1..Len(rq.hist) :
           (k < 3 /\ (NetworkFailure(rq.hist[k]) \/ TransientStatus(rq.hist[k])))
             => /\ Len(rq.delays) >= k
                /\ rq.delays[k] = k
                /\ (k = Len(rq.hist) => ~CallOver)
      /\ (Len(rq.hist) = 3 /\ NetworkFailure(rq.hist[3]))
           => (rq.st = "raised" /\ rq.result = rq.hist[3])
      /\ rq.st = "raised" => NetworkFailure(rq.hist[Len(rq.hist)])

C7_Witness ==
    /\ rq.retries = DefaultRetries
    /\ rq.hist = <<Raised("ClientError"), Raised("TimeoutError"), Raised("ClientError")>>
    /\ rq.st = "raised"
    /\ rq.result = Raised("ClientError")

(***************************************************************************)
(* Claims about recursive_list_files (checked under SpecList).             *)
(***************************************************************************)
ListedPaths == {listed[i].full_path : i \in 1..Len(listed)}

ListingFinished == pc = "listing" /\ lstack = <<>>

\* C5: every record the listing yields carries the key of an object of the
\* bucket as its full_path, and a listing that has finished with every
\* page answered 200 has yielded exactly K records for the K objects of the
\* bucket, one for each key.
C5_ListingComplete ==
    LET keys == DOMAIN remote.src["b1"]
    IN /\ \A i \in 1..Len(listed) : listed[i].full_path \in keys
       /\ (ListingFinished /\ log = {})
            => /\ Len(listed) = Cardinality(keys)
               /\ ListedPaths = keys

C5_Witness ==
    /\ ListingFinished /\ log = {}
    /\ Len(listed) = (PageLimit + 1) + PageLimit + 2 + 3
    /\ <<"d", Slash, "e", Slash, "f", "0", "0", "2">> \in ListedPaths
    /\ <<"g", Slash, "a">> \in ListedPaths
    /\ <<"g">> \in ListedPaths


(***************************************************************************)
(* Batches.                                                                *)
(***************************************************************************)
BatchOps == {"backup", "restore", "wipe"}

\* the tasks between acquiring and releasing a permit
InFlight == {i \in 1..Len(tasks) : tasks[i].st = "run"}

\* C1: during a backup, restore or wipe batch with concurrency limit N >= 1,
\* the number of object operations in flight (from acquiring the permit to
\* releasing it, retries and backoff waits included) is at most N.
C1_BoundedConcurrency ==
    (run.op \in BatchOps /\ run.n >= 1) => Cardinality(InFlight) <= run.n

\* a batch of more tasks than permits: all permits are held, one holder sleeps
\* in its backoff, and a task waits for a permit
C1_Witness ==
    /\ run.op \in BatchOps /\ run.n = 2 /\ Len(tasks) = 3
    /\ Cardinality(InFlight) = 2
    /\ \E i \in InFlight : tasks[i].req.st = "sleeping"
    /\ \E i \in 1..Len(tasks) : tasks[i].st = "new"

\* the paths the recursive listing produced (R) and the local content files (L)
RemoteSet == {listed[i].full_path : i \in 1..Len(listed)}

LocalSet == LocalFilesSet(fs, run.bucket)

\* the paths delete_file was called for
Deleted == {tasks[i].path : i \in {j \in 1..Len(tasks) : tasks[j].st # "new"}}

Wiping == run.op = "wipe" /\ pc \in {"await", "raised", "crashed", "restore_walk", "next_bucket"}

WipeReturned == run.op = "wipe" /\ pc \in {"restore_walk", "next_bucket"}

\* C2: wipe_bucket calls delete_file for no path outside R - L, and at most
\* once for a path; when it returns it has called delete_file exactly once for
\* every path of R - L.
C2_WipeDeletesDifference ==
    /\ Wiping =>
         /\ Deleted \subseteq RemoteSet \ LocalSet
         /\ \A i, j \in 1..Len(tasks) : tasks[i].path = tasks[j].path => i = j
    /\ WipeReturned =>
         /\ Deleted = RemoteSet \ LocalSet
         /\ Len(tasks) = Cardinality(RemoteSet \ LocalSet)

\* wipe_bucket has returned where R - L, R \cap L and L - R all hold a path
C2_Witness ==
    /\ WipeReturned
    /\ Deleted = {KeyS}
    /\ RemoteSet \cap LocalSet = {KeyD}
    /\ LocalSet \ RemoteSet = {KeyA}
    /\ ~HasObject(remote.tgt, run.bucket, KeyS)

\* a restore run has returned and each of its requests succeeded
RestoreSucceeded == run.kind = "restore" /\ pc = "done" /\ run.clean

\* the bucket holds the objects of the local snapshot, with their content
Mirrors(store, f, b) ==
    /\ b \in DOMAIN store
    /\ DOMAIN store[b] = LocalFiles(f, b)
    /\ \A k \in DOMAIN store[b] : store[b][k].content = f.files[LocalPath(b, k)].data

Before == past[Len(past)].remote0.tgt

RoundTrip ==
    /\ Len(past) = 2
    /\ past[1].kind = "backup" /\ past[1].end = "done" /\ past[1].clean
    /\ past[1].fs0 = NoFs
    /\ past[2].kind = "restore" /\ past[2].remote0.tgt = <<>>
    /\ RestoreSucceeded

\* the restored object carries what the sidecar of its path records
AsRecorded(obj, sidecar) ==
    /\ obj.metadata.mimetype = ContentType(sidecar.item.metadata)
    /\ obj.metadata.cacheControl = CacheHeader(sidecar.item.metadata)

\* C4: a backup of a bucket into an empty local directory followed by a
\* restore into an empty bucket, every request succeeding, reproduces the
\* same object paths with the same content, whatever paths the source holds,
\* and each restored object has the MIME type and cache-control its sidecar
\* records.
C4_RoundTrip ==
    RoundTrip =>
      \A b \in DOMAIN remote.src :
        /\ b \in DOMAIN remote.tgt
        /\ DOMAIN remote.tgt[b] = DOMAIN remote.src[b]
        /\ \A k \in DOMAIN remote.src[b] :
             /\ remote.tgt[b][k].content = remote.src[b][k].content
             /\ AsRecorded(remote.tgt[b][k], fs.files[SidecarOf(LocalPath(b, k))])

\* the final outcome of task t is a response that is no success
Rejected(t) ==
    /\ IsResp(t.last)
    /\ t.last.status \notin (IF run.op = "restore" THEN {200, 201} ELSE {200})

\* the batch function has returned to its caller
BatchReturned ==
    /\ run.op \in BatchOps /\ tasks # <<>>
    /\ pc \in {"next_bucket", "restore_walk"}

\* no task of the batch ended with an exception
NoneRaised == \A i \in 1..Len(tasks) : tasks[i].st # "failed"

\* C8: in a batch, a final response that is no success (download not 200,
\* upload not 200/201, delete not 200) is logged and not raised: the task
\* ends normally with a log line, the batch loop does not raise on it, and
\* when the batch returns every object of the batch has been attempted by
\* exactly one task.
C8_RejectionLogged ==
    /\ [](run.op \in BatchOps =>
            \A i \in 1..Len(tasks) :
              (tasks[i].st # "new" /\ Rejected(tasks[i])) =>
                /\ tasks[i].st = "done"
                /\ LogLine(run.op, tasks[i], tasks[i].last) \in log)
    /\ [](BatchReturned =>
            /\ \A i \in 1..Len(tasks) : tasks[i].st = "done"
            /\ \A i, j \in 1..Len(tasks) : tasks[i].path = tasks[j].path => i = j)
    /\ [][(pc = "await" /\ pc' = "raised") => ~Rejected(tasks[Head(doneq)])]_vars

\* a batch of three objects has returned: one was rejected, the others served
C8_Witness ==
    /\ BatchReturned /\ Len(tasks) = 3
    /\ \E i \in 1..3 :
         /\ Rejected(tasks[i]) /\ tasks[i].last.status = 404
         /\ \A j \in 1..3 \ {i} : tasks[j].res = "ok"

\* C9: every per-object error of a batch, a request that exhausts its
\* retries with a network exception included, is absorbed by its task: no
\* exception of a task leaves the batch function, and no task is left
\* unawaited because of one.
C9_ErrorsAbsorbed ==
    /\ run.last.call # "task"
    /\ (run.op \in BatchOps /\ pc = "crashed" /\ ~NoneRaised) =>
         \A i \in 1..Len(tasks) : tasks[i].st # "cancelled"

ObjectOps(buckets) ==
    {r \in issued : r.target = "object" /\ r.method \in {"POST", "DELETE"}
                    /\ r.bucket \in buckets}

AllBuckets == {"b1", "b2"}

Aborted == pc \in {"raised", "crashed"}

\* the call surfaced no 200 response
ListFailed(o) == ~IsResp(o) \/ o.status # 200

CreateFailed(o) == ~IsResp(o) \/ o.status \notin {200, 201, 400, 409}

\* C10: in a restore run, when the source directory is absent or the bucket
\* listing fails, the run ends without any object delete or upload; when
\* the creation of a bucket fails (its bucket list, or a status that is not
\* tolerated), the run aborts without any delete or upload for this bucket
\* or a bucket after it.
C10_SetupFailureFatal ==
    run.kind = "restore" =>
      /\ (<<>> \notin fs.dirs) => (pc = "exit1" /\ issued = {})
      /\ (run.last.call = "buckets" /\ ListFailed(run.last.o)) =>
           (Aborted /\ ObjectOps(AllBuckets) = {})
      /\ ((run.last.call = "create_list" /\ ListFailed(run.last.o))
            \/ (run.last.call = "create" /\ CreateFailed(run.last.o)))
           => (Aborted /\ ObjectOps({run.bucket} \cup run.todo \cup run.later) = {})

\* the creation of the second local bucket failed with a status that is not
\* tolerated, after the first bucket was restored
C10_Witness ==
    /\ run.kind = "restore" /\ pc = "crashed"
    /\ run.last.call = "create" /\ run.last.o = Resp(404)
    /\ ObjectOps(AllBuckets \ {run.bucket}) # {}

\* the source directory is absent
C10_WitnessNoDir == run.kind = "restore" /\ pc = "exit1"

(***************************************************************************)
(* Buckets.                                                                *)
(***************************************************************************)
CountOf(b, seq) == Cardinality({i \in 1..Len(seq) : seq[i] = b})

\* two restore runs have each called create_bucket_if_missing for local
\* bucket b, which the target lacked before the first; the first run has
\* returned, the second call is running or over, and the server answered
\* every request as its state demands
CalledTwice(b) ==
    /\ Len(past) = 2 /\ past[1].kind = "restore" /\ past[1].end = "done"
    /\ run.kind = "restore" /\ run.phase \in {"A", "B"}
    /\ b \in LocalBuckets(fs) /\ b \notin DOMAIN past[1].remote0.tgt
    /\ b \notin run.todo
    /\ faults = 0

\* C11: create_bucket_if_missing called twice in succession for a bucket
\* the remote store lacked makes exactly one successful create request
\* overall; the second call creates nothing, returns normally and leaves
\* the remote bucket set as it found it.
C11_CreateTwice ==
    \A b \in AllBuckets :
      CalledTwice(b) =>
        /\ CountOf(b, past[1].creates \o run.creates) = 1
        /\ CountOf(b, run.creates) = 0
        /\ (run.bucket = b /\ run.op = "create") => ~Aborted
        /\ DOMAIN remote.tgt = DOMAIN past[2].remote0.tgt

\* the second run is over, and its call issued no create request
C11_Witness ==
    /\ CalledTwice("b1") /\ pc = "done"
    /\ past[1].creates = <<"b1">>
    /\ CreateReq("b1") \notin issued

\* create_bucket_if_missing for run.bucket has got its bucket list
ListedForCreate ==
    /\ run.kind = "restore" /\ run.phase = "A" /\ pc # "c_list"
    /\ run.last.call = "create_list" /\ ~ListFailed(run.last.o)

\* the create request of run.bucket got its final outcome
CreateAnswered ==
    /\ run.kind = "restore" /\ run.phase = "A" /\ pc \notin {"c_list", "c_create"}
    /\ run.last.call = "create"

\* C12: when the bucket list lacks the name, create_bucket_if_missing issues
\* a create request; it returns normally when the final status is 200, 201,
\* 400 or 409 and raises for any other final status; when the list holds
\* the name it issues no create request.
C12_CreateStatuses ==
    /\ ListedForCreate =>
         IF run.bucket \in DOMAIN remote.tgt
           THEN CreateReq(run.bucket) \notin issued /\ run.op \in {"wipe", "restore"}
           ELSE CreateReq(run.bucket) \in issued /\ pc = "c_create"
    /\ CreateAnswered =>
         /\ CreateReq(run.bucket) \in issued
         /\ IF CreateFailed(run.last.o)
              THEN Aborted /\ run.op = "create"
              ELSE run.op \in {"wipe", "restore"}

\* the create request was answered 400 and the run went on to the uploads
C12_Witness ==
    /\ CreateAnswered /\ run.last.o = Resp(400)
    /\ run.op = "restore" /\ pc = "await"

\* list_buckets, called at the start of the run, has just returned
BucketsReturned ==
    /\ run.last.call = "buckets" /\ pc = "next_bucket" /\ run.op = "none"
    /\ run.phase = (IF run.kind = "backup" THEN "B" ELSE "A")

\* C13: list_buckets returns the bucket collection when the final status is
\* 200 and raises for every other final status, also one that is left after
\* the retries of a 5xx/429; no collection, partial or empty, is returned in
\* place of the error.
C13_ListBucketsRaises ==
    /\ (run.last.call \in {"buckets", "create_list"} /\ pc \notin {"r_list", "c_list"}
          /\ ListFailed(run.last.o)) =>
         /\ Aborted
         /\ run.last.call = "buckets" => (run.phase = "none" /\ run.todo = {} /\ run.later = {})
         /\ run.last.call = "create_list" =>
              (run.op = "create" /\ CreateReq(run.bucket) \notin issued)
    /\ BucketsReturned =>
         /\ run.last.o = Resp(200)
         /\ IF run.kind = "backup"
              THEN run.todo = DOMAIN remote.src
              ELSE /\ run.todo = LocalBuckets(fs)
                   /\ run.later = DOMAIN remote.tgt \ LocalBuckets(fs)

\* the bucket list of a backup was answered 503 three times
C13_Witness ==
    /\ run.kind = "backup" /\ pc = "crashed"
    /\ run.last.call = "buckets" /\ run.last.o = Resp(503)
    /\ DOMAIN remote.src # {}

\* the bucket list of a restore returned the two remote buckets
C13_WitnessReturned ==
    /\ BucketsReturned /\ run.kind = "restore"
    /\ DOMAIN remote.tgt = {"b1", "b2"} /\ run.later = {"b2"}

(***************************************************************************)
(* Error texts.  A text is a sequence of tokens: "eyJ" stands for those    *)
(* three characters, "a" for any other base64url character, "." for the    *)
(* dot and "!" for any character outside [a-zA-Z0-9_-.].                   *)
(***************************************************************************)
MaxBodyLen == 8

EyJ == "eyJ"
TextAlphabet == {EyJ, "a", ".", "!"}
RedactedJwt == "<REDACTED_JWT>"
RedactedKey == "<REDACTED_KEY>"

\* storage.py:41  the character class [a-zA-Z0-9_-]
Base64Url(t) == t \in {EyJ, "a"}

\* storage.py:41  [a-zA-Z0-9_-]+ is greedy: the length of the longest run of
\* class characters of s that starts at position i
RECURSIVE ClassRun(_, _)
ClassRun(s, i) ==
    IF i <= Len(s) /\ Base64Url(s[i]) THEN 1 + ClassRun(s, i + 1) ELSE 0

At(s, i, t) == i <= Len(s) /\ s[i] = t

\* storage.py:41  a segment "eyJ[a-zA-Z0-9_-]+" at position i: the position
\* after it, or 0 when there is none
EyJSegment(s, i) ==
    IF At(s, i, EyJ) /\ ClassRun(s, i + 1) > 0 THEN i + 1 + ClassRun(s, i + 1) ELSE 0

\* storage.py:41  the second segment of the pattern: "eyJ[a-zA-Z0-9_-]+"
SecondSegment(s, i) == EyJSegment(s, i)

\* storage.py:41  the pattern eyJ[..]+\.eyJ[..]+\.[..]+ matched at position
\* i: the position after the match, or 0 when it does not match there.  The
\* dot is outside the class, so the greedy match never backtracks.
JwtMatch(s, i) ==
    LET p1 == EyJSegment(s, i)
        p2 == IF p1 > 0 /\ At(s, p1, ".") THEN SecondSegment(s, p1 + 1) ELSE 0
    IN IF p2 > 0 /\ At(s, p2, ".") /\ ClassRun(s, p2 + 1) > 0
         THEN p2 + 1 + ClassRun(s, p2 + 1)
         ELSE 0

\* storage.py:41  re.sub: the leftmost matches, left to right, each replaced
RECURSIVE SubJwt(_, _)
SubJwt(s, i) ==
    IF i > Len(s) THEN <<>>
    ELSE IF JwtMatch(s, i) > 0 THEN <<RedactedJwt>> \o SubJwt(s, JwtMatch(s, i))
    ELSE <<s[i]>> \o SubJwt(s, i + 1)

OccursAt(s, i, key) ==
    /\ i + Len(key) - 1 <= Len(s)
    /\ SubSeq(s, i, i + Len(key) - 1) = key

\* storage.py:45  str.replace: the occurrences of the key, left to right and
\* without overlap, each replaced
RECURSIVE ReplaceKey(_, _, _)
ReplaceKey(s, key, i) ==
    IF i > Len(s) THEN <<>>
    ELSE IF OccursAt(s, i, key) THEN <<RedactedKey>> \o ReplaceKey(s, key, i + Len(key))
    ELSE <<s[i]>> \o ReplaceKey(s, key, i + 1)

\* storage.py:37-47
SanitizeError(message, key) ==
    LET sanitized == SubJwt(message, 1)
    IN IF key # <<>> THEN ReplaceKey(sanitized, key, 1) ELSE sanitized

\* a key as Supabase issues it: a signed token
JwtKey == <<EyJ, "a", ".", EyJ, "a", ".", "a">>

\* the keys the migrator is constructed with: none, opaque ones, a token
ApiKeys == {<<>>, <<"a", "a">>, <<"!", "a">>, <<"a", ".">>, JwtKey}

Texts == UNION {[1..n -> TextAlphabet] : n \in 0..MaxBodyLen}

\* a response body arrives at one of the error sites
InitSanitize ==
    /\ rq = RetryCall(DefaultRetries)
    /\ remote = [src |-> <<>>, tgt |-> <<>>]
    /\ fs = NoFs
    /\ Idle
    /\ \E key \in ApiKeys, body \in Texts :
         err = [key |-> key, message |-> body, text |-> <<>>, st |-> "read"]
    /\ sess = Entered

\* storage.py:79,98,121,171,247,266  the error text is built from the
\* sanitised body and raised or printed
SurfaceError ==
    /\ err.st = "read"
    /\ err' = [err EXCEPT !.text = SanitizeError(err.message, err.key),
                          !.st = "surfaced"]
    /\ UNCHANGED <<sess, rq, migratorVarsNoErr>>

SpecSanitize == InitSanitize /\ [][SurfaceError]_vars

\* three dot-separated base64url segments, the first beginning with eyJ,
\* start at position i of s
TokenShapedAt(s, i) ==
    /\ At(s, i, EyJ) /\ ClassRun(s, i + 1) > 0
    /\ LET p1 == i + 1 + ClassRun(s, i + 1)
           p2 == p1 + 1 + ClassRun(s, p1 + 1)
       IN /\ At(s, p1, ".") /\ ClassRun(s, p1 + 1) > 0
          /\ At(s, p2, ".") /\ ClassRun(s, p2 + 1) > 0

HasToken(s) == \E i \in 1..Len(s) : TokenShapedAt(s, i)
HasKey(s, key) == key # <<>> /\ \E i \in 1..Len(s) : OccursAt(s, i, key)
Surfaced == err.st = "surfaced"

\* C14: no error text that is logged or raised holds a string of three
\* dot-separated base64url segments beginning with eyJ, nor the configured
\* API key, whatever the response body was.
C14_Redacted ==
    Surfaced => ~HasToken(err.text) /\ ~HasKey(err.text, err.key)

\* what the substitutions do achieve: no text matching the pattern of
\* storage.py:41 (first and second segment beginning with eyJ) and no
\* occurrence of the key is left
C14_PatternRedacted ==
    Surfaced =>
      /\ \A i \in 1..Len(err.text) : JwtMatch(err.text, i) = 0
      /\ ~HasKey(err.text, err.key)

C14_KeyRedacted == Surfaced => ~HasKey(err.text, err.key)

(***************************************************************************)
(* Uploads.                                                                *)
(***************************************************************************)
Uploads == {r \in issued : r.method = "POST" /\ r.target = "object"}

\* the content files of bucket b's snapshot directory
ContentFiles(b) == {q \in Walk(fs, BucketDir(b)) : ~EndsWithSuffix(q)}

HasSidecar(q) == IsFile(fs, SidecarOf(q))
Sidecar(q) == fs.files[SidecarOf(q)].item.metadata

\* the sidecar is missing, or lacks the metadata record or the mimetype
NoMime(q) == ~HasSidecar(q) \/ ~Sidecar(q).present \/ Sidecar(q).mimetype \in {"null", ""}
NoCache(q) == ~HasSidecar(q) \/ ~Sidecar(q).present \/ Sidecar(q).cacheControl = <<>>

\* image/jpg in any spelling of its letters
IsJpgAlias(m) == m \in {"image/jpg", "IMAGE/JPG"}

HeadersFor(r, q) ==
    /\ r.upsert
    /\ r.ctype = (IF NoMime(q) THEN "application/octet-stream"
                  ELSE IF IsJpgAlias(Sidecar(q).mimetype) THEN "image/jpeg"
                  ELSE Sidecar(q).mimetype)
    /\ r.cache = (IF NoCache(q) THEN <<"max-age=", "3600">>
                  ELSE <<"max-age=">> \o Sidecar(q).cacheControl)

\* C15: every upload of restore_bucket carries x-upsert: true, the sidecar's
\* mimetype as Content-Type (image/jpg sent as image/jpeg) and max-age=<the
\* sidecar's cacheControl>; with the sidecar, its metadata record or the
\* field missing it carries application/octet-stream and max-age=3600.
C15_UploadHeaders ==
    \A r \in Uploads :
      /\ run.kind = "restore"
      /\ \E q \in ContentFiles(r.bucket) :
           /\ r.path = Quote(Relpath(q, BucketDir(r.bucket)))
           /\ HeadersFor(r, q)

C15_Witness ==
    /\ pc = "done" /\ run.kind = "restore"
    /\ \E r \in Uploads : r.ctype = "image/jpeg" /\ r.cache = <<"max-age=", "60">>
    /\ \E r \in Uploads : r.ctype = "image/jpeg" /\ r.cache = <<"max-age=", "3600">>

C15_WitnessNoSidecar ==
    /\ pc = "done" /\ run.kind = "restore"
    /\ \E r \in Uploads : \E q \in ContentFiles(r.bucket) :
         /\ ~HasSidecar(q) /\ r.path = Quote(Relpath(q, BucketDir(r.bucket)))
         /\ r.ctype = "application/octet-stream"

C15_WitnessNoRecord ==
    /\ pc = "done" /\ run.kind = "restore"
    /\ \E r \in Uploads : \E q \in ContentFiles(r.bucket) :
         /\ HasSidecar(q) /\ ~Sidecar(q).present
         /\ r.path = Quote(Relpath(q, BucketDir(r.bucket)))
         /\ r.ctype = "application/octet-stream"

(***************************************************************************)
(* Buckets outside the backup.                                             *)
(***************************************************************************)
NoDirectory(b) == ~Exists(fs, BucketDir(b))

RestoreReturned == run.kind = "restore" /\ pc = "done"

\* C16: for a bucket with no local snapshot directory wipe_bucket deletes
\* every object its listing returned, and a restore run does so for every
\* remote bucket, as listed at its start, that has no directory in the backup.
C16_NoDirectoryWipesAll ==
    /\ (Wiping /\ NoDirectory(run.bucket)) => Deleted \subseteq RemoteSet
    /\ (WipeReturned /\ NoDirectory(run.bucket)) =>
         /\ Deleted = RemoteSet
         /\ Len(tasks) = Cardinality(RemoteSet)
    /\ RestoreReturned =>
         \A b \in DOMAIN Before \ LocalBuckets(fs) :
           /\ NoDirectory(b)
           /\ ListReq(b, <<>>) \in issued
           /\ CreateReq(b) \notin issued
           /\ run.clean =>
                /\ \A k \in DOMAIN Before[b] : DeleteReq(b, k) \in issued
                /\ b \in DOMAIN remote.tgt /\ DOMAIN remote.tgt[b] = {}

\* a restore from a backup of b1 alone has emptied b2, which held two objects
C16_Witness ==
    /\ RestoreReturned /\ run.clean
    /\ LocalBuckets(fs) = {"b1"}
    /\ DOMAIN Before = {"b1", "b2"}
    /\ DOMAIN Before["b2"] = {KeyA, KeyD}
    /\ DOMAIN remote.tgt["b2"] = {}

(***************************************************************************)
(* Deletions at the source.                                                *)
(***************************************************************************)
\* a backup run that returned, followed by a restore run that returned
BackupThenRestore ==
    /\ Len(past) = 2
    /\ past[1].kind = "backup" /\ past[1].end = "done"
    /\ RestoreReturned

\* object k of bucket b was captured by an earlier backup and restored to
\* the target, and was deleted from the source before the backup run
DeletedSince(b, k) ==
    /\ IsFile(past[1].fs0, LocalPath(b, k))
    /\ HasObject(past[1].remote0.tgt, b, k)
    /\ b \in DOMAIN past[1].remote0.src
    /\ ~HasObject(past[1].remote0.src, b, k)

\* C17: an object captured by an earlier backup, restored to the target and
\* then deleted from the source is no longer in the target bucket after the
\* next backup run into the same directory followed by a restore run.
C17_DeletionsMirrored ==
    BackupThenRestore =>
      \A b \in AllBuckets, k \in Keys :
        DeletedSince(b, k) => ~HasObject(remote.tgt, b, k)

\* what the two runs do instead: the backup leaves the content file of the
\* deleted object in place, and the restore uploads it again
C17_StaleFileKept ==
    (BackupThenRestore /\ run.clean /\ past[1].clean) =>
      \A b \in AllBuckets, k \in Keys :
        DeletedSince(b, k) => HasObject(remote.tgt, b, k) /\ IsFile(fs, LocalPath(b, k))

(***************************************************************************)
(* Sidecars.                                                               *)
(***************************************************************************)
\* backup_bucket has returned for a bucket whose directory held no file when
\* the run started
BackupReturnedFresh ==
    /\ run.kind = "backup" /\ run.op = "backup" /\ pc = "next_bucket"
    /\ Walk(past[Len(past)].fs0, BucketDir(run.bucket)) = {}

\* C18: after backup_bucket into an initially empty directory has returned,
\* for every object path the sidecar <path>.__metadata.json exists if and
\* only if the content file <path> exists, also when downloads failed.
C18_SidecarIffContent ==
    BackupReturnedFresh =>
      \A k \in DOMAIN remote.src[run.bucket] :
        IsFile(fs, SidecarOf(LocalPath(run.bucket, k)))
          <=> IsFile(fs, LocalPath(run.bucket, k))

\* what the writes do guarantee: a content file is never without its sidecar
C18_ContentHasSidecar ==
    BackupReturnedFresh =>
      \A k \in DOMAIN remote.src[run.bucket] :
        IsFile(fs, LocalPath(run.bucket, k))
          => IsFile(fs, SidecarOf(LocalPath(run.bucket, k)))

\* the bucket's only object was refused: its sidecar is there, its content not
C18_SidecarAlone ==
    /\ BackupReturnedFresh
    /\ DOMAIN remote.src[run.bucket] = {KeyA}
    /\ Len(tasks) = 1 /\ tasks[1].last \in {Resp(400), Resp(404)}
    /\ IsFile(fs, SidecarOf(LocalPath(run.bucket, KeyA)))
    /\ ~IsFile(fs, LocalPath(run.bucket, KeyA))

(***************************************************************************)
(* The order of the steps of a restore.                                    *)
(***************************************************************************)
UploadsFor(b) == {r \in Uploads : r.bucket = b}
DeletesFor(b) == {r \in issued : r.method = "DELETE" /\ r.bucket = b}

\* create_bucket_if_missing has returned for bucket b in this run
Ensured(b) ==
    /\ run.phase \in {"A", "B"} /\ b \notin run.todo
    /\ ~(run.bucket = b /\ run.op = "create")

\* wipe_bucket has been entered for bucket b in this run
ReconcileBegun(b) == ListReq(b, <<>>) \in issued

\* C19: in a restore run, for every bucket with a local snapshot directory,
\* the bucket is ensured to exist first, then every reconcile delete for the
\* bucket completes, and only then is the first upload for it issued.
C19_RestoreOrder ==
    run.kind = "restore" =>
      \A b \in LocalBuckets(fs) :
        /\ (ReconcileBegun(b) \/ DeletesFor(b) # {}) => Ensured(b)
        /\ (run.bucket = b /\ run.op \in {"create", "wipe"}) => UploadsFor(b) = {}
        /\ (run.bucket = b /\ pc = "restore_walk") =>
             \A i \in 1..Len(tasks) : tasks[i].st = "done"
        /\ UploadsFor(b) # {} =>
             /\ Ensured(b) /\ ReconcileBegun(b)
             /\ run.bucket = b => run.op \in {"restore", "none"}

\* an upload is in flight for a bucket that was ensured and from which the
\* reconcile deleted an object
C19_Witness ==
    /\ run.kind = "restore" /\ run.bucket = "b1" /\ pc = "await"
    /\ UploadsFor("b1") # {} /\ InFlight # {}
    /\ DeletesFor("b1") = {DeleteReq("b1", KeyS)}
    /\ ~HasObject(remote.tgt, "b1", KeyS)

(***************************************************************************)
(* One bucket at a time.                                                   *)
(***************************************************************************)
\* the tasks of the batch that have not ended
Unfinished == {i \in 1..Len(tasks) : tasks[i].st \in {"new", "run"}}

IsObjectOp(r) == r.target = "object" /\ r.method \in {"GET", "POST", "DELETE"}

\* the run is between two buckets, or over
BetweenBuckets == pc \in {"next_bucket", "done"}

\* C20: within a backup or restore run no download, upload or delete for a
\* bucket starts before every object operation of the bucket processed
\* before it has completed: operations of two buckets are never in flight
\* together.
C20_BucketsSequential ==
    /\ [](BetweenBuckets => Unfinished = {})
    /\ [](\A i \in Unfinished : run.op \in BatchOps /\ run.bucket \in AllBuckets)
    /\ [][/\ Unfinished # {} => (run'.bucket = run.bucket /\ run'.kind = run.kind)
          /\ \A r \in issued' \ issued :
               IsObjectOp(r) => (r.bucket = run'.bucket /\ r.bucket = run.bucket)]_vars

\* the second bucket's download is in flight after the first bucket's ended
C20_Witness ==
    /\ run.kind = "backup" /\ run.bucket = "b2" /\ pc = "await"
    /\ InFlight # {}
    /\ DownloadReq("b1", KeyA) \in issued
    /\ IsFile(fs, LocalPath("b1", KeyA))

(***************************************************************************)
(* A list page that fails (checked under SpecList).                        *)
(***************************************************************************)
\* the prefixes whose pagination ended with a logged error
FailedPrefixes == {l.path : l \in {m \in log : m.what = "list"}}

\* key k lies under prefix p
Under(k, p) == p = <<>> \/ StartsWith(k, p \o <<Slash>>)

\* C21: a non-200 final response on a list page is logged and not raised; it
\* ends the pagination of that prefix only: the records already yielded stay
\* yielded and the remaining entries of the parent directory are listed.
C21_ListErrorSkipsPrefix ==
    /\ [](pc = "raised" => ~IsResp(run.last.o))
    /\ [](ListingFinished =>
            \A k \in DOMAIN Objects :
              (\A p \in FailedPrefixes : ~Under(k, p)) => k \in ListedPaths)
    /\ [][log' # log =>
            /\ pc' = "listing"
            /\ listed' = listed
            /\ lstack' = Pop(lstack)
            /\ \E l \in log' \ log : l.path = Top.path /\ l.status # 200]_vars

\* the second page of d failed: the 100 files of its first page stay yielded
\* and the files of the root that sort after d were listed
C21_Witness ==
    /\ ListingFinished
    /\ FailedPrefixes = {<<"d">>}
    /\ <<"d", Slash, "f", "0", "0", "1">> \in ListedPaths
    /\ <<"f", "0", "0", "1">> \in ListedPaths
    /\ Len(listed) = PageLimit + 1

(***************************************************************************)
(* The backoff (checked under SpecRetry).                                  *)
(***************************************************************************)
RECURSIVE SumOf(_)
SumOf(seq) == IF seq = <<>> THEN 0 ELSE Head(seq) + SumOf(Tail(seq))

Retryable(o) == NetworkFailure(o) \/ TransientStatus(o)

\* C22: with the default budget of 3, after a retryable outcome on attempt
\* k (k = 1, 2) the call waits exactly k time units before attempt k + 1; no
\* wait follows the third attempt; a call that exhausts all attempts has
\* waited 3 time units in total.
C22_LinearBackoff ==
    rq.retries = DefaultRetries =>
      /\ Len(rq.delays) <= 2
      /\ \A k \in 1..Len(rq.delays) : rq.delays[k] = k /\ Retryable(rq.hist[k])
      /\ \A k \in 1..Len(rq.hist) : (k < 3 /\ Retryable(rq.hist[k])) => Len(rq.delays) >= k
      /\ rq.st = "inflight" => (Len(rq.delays) = Len(rq.hist) /\ rq.attempt = Len(rq.hist))
      /\ Len(rq.hist) = 3 => (CallOver /\ Len(rq.delays) = 2 /\ SumOf(rq.delays) = 3)

C22_Witness ==
    /\ rq.retries = DefaultRetries
    /\ rq.hist = <<Resp(503), Raised("ClientError"), Resp(429)>>
    /\ rq.delays = <<1, 2>>
    /\ rq.st = "returned"

(***************************************************************************)
(* The client session.  Sessions are numbered in the order of their        *)
(* creation; sess.made[j] is the number of times the session had been      *)
(* missing (absent at first, or closed) when session j was created, and    *)
(* sess.callers holds, for each task, where it is in _request_with_retry   *)
(* and the session it got.                                                 *)
(***************************************************************************)
MaxCallers == 3
MaxCloses == 2

Caller(st, session) == [st |-> st, session |-> session]

\* the variant whose guard is always taken
UnavailableAlways(s) == TRUE

\* storage.py:50  self.session is None or self.session.closed
Unavailable(s) == s.cur = 0 \/ s.cur \in s.closed

\* storage.py:49-52  _get_session holds no await: the coroutine runs from its
\* guard to its return without the event loop giving control to another task
GetSession(s) ==
    IF Unavailable(s)
      THEN [s EXCEPT !.cur = Len(s.made) + 1, !.made = Append(@, s.epoch)]
      ELSE s

\* the tasks are about to call _request_with_retry on a migrator that was
\* only constructed, or entered
InitSession ==
    /\ rq = RetryCall(DefaultRetries)
    /\ err = NoErr
    /\ remote = [src |-> <<>>, tgt |-> <<>>]
    /\ fs = NoFs
    /\ Idle
    /\ \E s \in {Constructed, Entered}, n \in 1..MaxCallers :
         sess = [s EXCEPT !.callers = [i \in 1..n |-> Caller("ready", 0)]]

\* storage.py:54-55  task i enters _request_with_retry and gets the session
CallerEnters(i) ==
    /\ sess.callers[i].st = "ready"
    /\ LET got == GetSession(sess)
       IN sess' = [got EXCEPT !.callers[i] = Caller("request", got.cur)]
    /\ UNCHANGED <<err, rq, migratorVarsNoErr>>

\* storage.py:58-72  the call of task i returns or raises
CallerLeaves(i) ==
    /\ sess.callers[i].st = "request"
    /\ sess' = [sess EXCEPT !.callers[i].st = "over"]
    /\ UNCHANGED <<err, rq, migratorVarsNoErr>>

\* storage.py:33-35  __aexit__ closes the session while tasks are pending
CloseSession ==
    /\ sess.cur # 0 /\ sess.cur \notin sess.closed
    /\ sess.epoch < MaxCloses
    /\ sess' = [sess EXCEPT !.closed = @ \cup {sess.cur}, !.epoch = @ + 1]
    /\ UNCHANGED <<err, rq, migratorVarsNoErr>>

NextSession ==
    \/ \E i \in DOMAIN sess.callers : CallerEnters(i)
    \/ \E i \in DOMAIN sess.callers : CallerLeaves(i)
    \/ CloseSession

\* the event loop runs every task that is ready: a caller that can take its
\* next step takes it
CallerSteps ==
    \E i \in DOMAIN sess.callers : CallerEnters(i) \/ CallerLeaves(i)

SpecSession == InitSession /\ [][NextSession]_vars /\ WF_vars(CallerSteps)

\* two sessions were created by tasks for the same absence of the session
Recreated == {j \in 1..Len(sess.made) : sess.made[j] >= 1}

RecreationRace ==
    \E i, j \in Recreated : i # j /\ sess.made[i] = sess.made[j]

\* C23 as stated: when several concurrent tasks call _request_with_retry
\* while the session is absent or closed, more than one of them can create a
\* new client session: with every ready task scheduled, some run reaches the
\* race.
C23_RaceReachable == <>RecreationRace

\* C23: of the tasks that call _request_with_retry while the session is
\* absent or closed at most one creates a session, the first to call; the
\* others get the session it created.
C23_SingleCreation ==
    /\ ~RecreationRace
    /\ Len(sess.made) <= sess.epoch + 1
    /\ \A i \in DOMAIN sess.callers :
         sess.callers[i].st # "ready" => sess.callers[i].session \in 1..Len(sess.made)

\* three tasks have called on a migrator that had no session: one session
C23_Witness ==
    /\ Len(sess.callers) = 3
    /\ \A i \in 1..3 : sess.callers[i] = Caller("request", 1)
    /\ sess.made = <<1>> /\ sess.closed = {}

(***************************************************************************)
(* The streamed listing of a backup.                                       *)
(***************************************************************************)
BackupListing == run.op = "backup" /\ pc = "listing"

\* C24: backup_bucket streams its listing: the download task of a record
\* exists as soon as the record is yielded, and it can start, and be in
\* flight, while later list requests of the bucket are still awaited.
C24_ListingStreamed ==
    BackupListing =>
      /\ Len(tasks) = Len(listed)
      /\ \A i \in 1..Len(tasks) :
           /\ tasks[i].path = listed[i].full_path
           /\ (tasks[i].st = "new" /\ mreq.st \in {"inflight", "sleeping"} /\ sem > 0)
                => ENABLED TaskStart(i)

\* the download of a is in flight while the list request for d is awaited
C24_Witness ==
    /\ BackupListing /\ mreq.st = "inflight" /\ Len(lstack) = 2
    /\ Top.path = <<"d">>
    /\ Len(tasks) = 1 /\ tasks[1].st = "run" /\ tasks[1].req.st = "inflight"
    /\ DownloadReq(run.bucket, KeyA) \in issued

(***************************************************************************)
(* Any budget, any outcomes (checked under SpecRetry).                     *)
(***************************************************************************)
LastOutcome == rq.hist[Len(rq.hist)]

\* C25: for every sequence of outcomes and every budget >= 1 the call makes
\* at most `retries` attempts, makes no attempt after the first one that
\* returned a non-retryable status, and surfaces, as returned response or
\* raised exception, the outcome of the last attempt it made.
C25_RetryContract ==
    rq.retries >= 1 =>
      /\ Len(rq.hist) <= rq.retries
      /\ \A k \in 1..(Len(rq.hist) - 1) : Retryable(rq.hist[k])
      /\ (~CallOver /\ rq.hist # <<>>) => (Retryable(LastOutcome) /\ Len(rq.hist) < rq.retries)
      /\ CallOver =>
           /\ rq.hist # <<>>
           /\ rq.result = LastOutcome
           /\ rq.st = (IF IsResp(LastOutcome) THEN "returned" ELSE "raised")
           /\ Retryable(LastOutcome) => Len(rq.hist) = rq.retries

\* a budget of 4: two transient failures, then a 404 ends the call at once
C25_Witness ==
    /\ rq.retries = 4
    /\ rq.hist = <<Raised("TimeoutError"), Resp(429), Resp(404)>>
    /\ rq.st = "returned" /\ rq.result = Resp(404)

(***************************************************************************)
(* What a wipe may delete.                                                 *)
(***************************************************************************)
\* the paths of the delete requests issued for bucket b in this run
DeletePaths(b) == {Unquote(r.path) : r \in DeletesFor(b)}

\* the deletions of a wipe whose listing returns every object of the bucket
FullDeletions(b) == DOMAIN ObjectsOf(Before, b) \ LocalFilesSet(fs, b)

WipeListing == run.op = "wipe" /\ pc = "listing"

\* C26: wipe_bucket issues no delete before its listing has finished, and
\* only deletes paths that the listing returned and that have no local
\* content file; a listing that returns nothing leads to no delete, and a
\* failed or partial listing can only shrink the set of deletions.
C26_WipeDeletesListedOnly ==
    run.op = "wipe" =>
      /\ WipeListing => (DeletePaths(run.bucket) = {} /\ tasks = <<>>)
      /\ DeletePaths(run.bucket) \subseteq RemoteSet \ LocalFilesSet(fs, run.bucket)
      /\ listed = <<>> => DeletePaths(run.bucket) = {}
      /\ DeletePaths(run.bucket) \subseteq FullDeletions(run.bucket)
      /\ \A i \in 1..Len(tasks) : tasks[i].path \in FullDeletions(run.bucket)

\* the list page of d failed: the wipe deleted the other extra object only
C26_Witness ==
    /\ WipeReturned
    /\ FailedPrefixes = {<<"d">>}
    /\ DeletePaths(run.bucket) = {KeyS}
    /\ FullDeletions(run.bucket) = {KeyS, KeyD}
    /\ HasObject(remote.tgt, run.bucket, KeyD)

\* the first list page failed: nothing is deleted
C26_WitnessNothingListed ==
    /\ WipeReturned /\ listed = <<>>
    /\ FailedPrefixes = {<<>>}
    /\ FullDeletions(run.bucket) # {}

(***************************************************************************)
(* A backup reads only.                                                    *)
(***************************************************************************)
\* the requests that read: the bucket list, a list page, an object
ReadOnly(r) ==
    \/ r = BucketListReq
    \/ r.method = "POST" /\ r.target = "list"
    \/ r.method = "GET" /\ r.target = "object"

\* C27: a backup run issues only the bucket list GET, object-list POSTs and
\* object GETs, and the remote bucket set and every bucket's objects are the
\* same during and after the run as before it, whatever is answered.
C27_BackupReadOnly ==
    run.kind = "backup" =>
      /\ \A r \in issued : ReadOnly(r)
      /\ remote = past[Len(past)].remote0

\* a backup of two objects has returned although a download was refused
C27_Witness ==
    /\ run.kind = "backup" /\ pc = "done" /\ ~run.clean
    /\ remote.src = OneBucket(ObjectsWith({KeyA, KeyD}, 1))
    /\ {DownloadReq("b1", KeyA), DownloadReq("b1", KeyD), ListReq("b1", <<"d">>)}
         \subseteq issued

(***************************************************************************)
(* Progress.  The event loop runs every step that is ready, and every      *)
(* HTTP attempt is answered or raises; when a run is started is up to the  *)
(* user.                                                                   *)
(***************************************************************************)
Step ==
    \/ \E o \in Outcomes : BucketsRespond(o)
    \/ NextBucket
    \/ \E o \in Outcomes : CreateListRespond(o)
    \/ \E o \in Outcomes : CreateRespond(o)
    \/ \E o \in Outcomes : ListPageRespond(o)
    \/ MainWake
    \/ ListItem
    \/ ListPageEnd
    \/ ListingDone
    \/ RestoreWalk
    \/ \E i \in 1..Len(tasks) : TaskStart(i)
    \/ \E i \in 1..Len(tasks), o \in Outcomes : TaskRespond(i, o)
    \/ \E i \in 1..Len(tasks) : TaskWake(i)
    \/ MainAwait
    \/ Teardown

\* one run of each kind over buckets with more objects than permits
InitLive ==
    /\ rq = RetryCall(DefaultRetries)
    /\ err = NoErr
    /\ sess = Entered
    /\ \/ /\ remote = [src |-> OneBucket(ObjectsWith(Keys, 1)), tgt |-> <<>>]
          /\ fs = NoFs
       \/ /\ remote = [src |-> <<>>, tgt |-> OneBucket(ObjectsWith({KeyS, KeyD}, 2))]
          /\ fs = SnapshotOf(OneBucket(ObjectsWith({KeyA, KeyD}, 1)), TRUE)
       \/ /\ remote = [src |-> <<>>, tgt |-> <<>>]
          /\ fs = SnapshotOf(OneBucket(ObjectsWith({KeyA}, 1)), TRUE)
    /\ Idle

\* the one run that is observed
StartOnlyRun(kind, n) == past = <<>> /\ StartRun(kind, n)

NextLive ==
    \/ \E kind \in {"backup", "restore"}, n \in 1..MaxConcurrency : StartOnlyRun(kind, n)
    \/ Step

SpecLive == InitLive /\ [][NextLive]_vars /\ WF_vars(Step)

MaxTasks == Cardinality(Keys)

\* backup_bucket, restore_bucket or wipe_bucket is running
InBatch == run.op \in BatchOps /\ pc \in {"listing", "restore_walk", "await"} /\ run.n >= 1

Waiting(i) == i <= Len(tasks) /\ tasks[i].st = "new"

Acquired(i) == i <= Len(tasks) /\ tasks[i].st \in {"run", "done", "failed"}

\* C28: with N >= 1 and every attempt answered or raising, each of
\* backup_bucket, restore_bucket and wipe_bucket eventually finishes, every
\* task eventually acquires a permit, and no task waits forever.
C28_EveryTaskGetsPermit ==
    /\ InBatch ~> ~InBatch
    /\ \A i \in 1..MaxTasks : Waiting(i) ~> Acquired(i)

Cancelled(i) == i <= Len(tasks) /\ tasks[i].st = "cancelled"

\* the part that holds: the function finishes, and a waiting task either
\* acquires a permit or is cancelled when the function has raised
C28_BatchFinishes ==
    /\ InBatch ~> ~InBatch
    /\ \A i \in 1..MaxTasks : Waiting(i) ~> (Acquired(i) \/ Cancelled(i))
    /\ [](\A i \in 1..MaxTasks : Cancelled(i) => Aborted)

\* a backup of three objects with one permit: the first download raised, the
\* second task got the permit it released, and the third was cancelled
\* without ever having had one
C28_NeverAcquired ==
    /\ pc = "crashed" /\ run.op = "backup" /\ run.n = 1 /\ Len(tasks) = 3
    /\ run.last.call = "task" /\ ~IsResp(run.last.o)
    /\ tasks[1].st = "failed"
    /\ tasks[2].st = "cancelled" /\ TaskReq(tasks[2]) \in issued
    /\ tasks[3].st = "cancelled" /\ TaskReq(tasks[3]) \notin issued

(***************************************************************************)
(* C29: what a batch function leaves behind when it finishes.              *)
(***************************************************************************)
\* storage.py:184-186, 250-252, 315-317  the batch function has raised: the
\* exception is on its way out of backup() / restore()
BatchRaised == run.op \in BatchOps /\ pc = "raised"

\* every permit of the semaphore is free
AllPermitsFree == sem = run.n

\* C29: whenever backup_bucket, restore_bucket or wipe_bucket finishes, by
\* returning or by raising, no task it created is still waiting or in flight
\* and all N permits of its semaphore are free again.
C29_NothingLeftBehind ==
    (BatchReturned \/ (BatchRaised /\ tasks # <<>>)) =>
        Unfinished = {} /\ AllPermitsFree

\* the half that holds: a batch function that returns leaves no task behind
\* and every permit free
C29_ReturnLeavesNothing ==
    BatchReturned => Unfinished = {} /\ AllPermitsFree

\* a batch of three tasks has returned with concurrency 2
C29_WitnessReturned ==
    BatchReturned /\ Len(tasks) = 3 /\ run.n = 2

\* backup_bucket has raised out of its await while a sibling download still
\* holds a permit with its request in flight
C29_InFlightAtRaise ==
    /\ BatchRaised /\ run.op = "backup" /\ run.n = 2
    /\ run.last.call = "task"
    /\ \E i \in 1..Len(tasks) : tasks[i].st = "run" /\ tasks[i].req.st = "inflight"
    /\ sem < run.n

\* backup_bucket has raised out of its listing while a download is in flight
C29_InFlightAtListingRaise ==
    /\ BatchRaised /\ run.op = "backup"
    /\ run.last.call # "task"
    /\ InFlight # {}

(***************************************************************************)
(* Names that end with the sidecar suffix.                                 *)
(***************************************************************************)
\* the last component of path p ends with .__metadata.json
SidecarNamed(p) == p # <<>> /\ p[Len(p)] = Suffix

\* the paths wipe_bucket has chosen to delete
ChosenForDelete == {tasks[i].path : i \in 1..Len(tasks)}

\* wipe_bucket has chosen its deletions, or returned
WipeDecided == run.op = "wipe" /\ pc \in {"await", "restore_walk", "next_bucket"}

==============================================================================
